---- MODULE Spec2Model ----
(***************************************************************************)
(* Model of renewgy_parser.py: the conversion of one loaded worksheet      *)
(* (excel_df) into the fixed-schema CSV record stream, with the bi-hourly  *)
(* (peak/offpeak) split and the EAN mapping resolution.                    *)
(*                                                                         *)
(* Strings are sequences of tokens (TLA+ strings); "x in s" on a Python    *)
(* string is membership of the token in the sequence.  Timestamps are      *)
(* minutes since 2024-01-01 00:00, which is a Monday.  Floats are modelled *)
(* by integers plus an explicit NaN.                                       *)
(***************************************************************************)
EXTENDS Integers, Sequences, FiniteSets, TLC

\* ------------------------------------------------------------------------
\* Bounds of the model.
\* ------------------------------------------------------------------------
MaxDataRows == 2
MaxNum == 60

\* ------------------------------------------------------------------------
\* Time arithmetic (datetime / pd.Timestamp).
\* ------------------------------------------------------------------------
MinPerDay == 24 * 60

\* 1970-01-01 (the epoch of a numeric timestamp) lies 19723 days before
\* 2024-01-01.
EpochT == 0 - 19723 * MinPerDay

MkTime(d, h, m) == (d - 1) * MinPerDay + h * 60 + m
weekday(t) == (t \div MinPerDay) % 7
hour(t) == (t \div 60) % 24
minute(t) == t % 60
dayOfMonth(t) == (t \div MinPerDay) + 1

\* ------------------------------------------------------------------------
\* Cells of the grid: Empty (NaN) | Number | Text | DateTime.
\* ------------------------------------------------------------------------
EmptyCell == [tag |-> "Empty", n |-> 0, s |-> <<>>]
NumCell(x) == [tag |-> "Number", n |-> x, s |-> <<>>]
TextCell(str) == [tag |-> "Text", n |-> 0, s |-> str]
DateCell(t) == [tag |-> "DateTime", n |-> t, s |-> <<>>]

\* pd.isna / pd.notna on a cell.
isna(c) == c.tag = "Empty"
notna(c) == ~isna(c)

\* ------------------------------------------------------------------------
\* String helpers.
\* ------------------------------------------------------------------------
Range(sq) == {sq[i] : i \in 1..Len(sq)}
InStr(tok, str) == tok \in Range(str)

\* str.lower(), token by token.
LowerTok(tok) ==
    CASE tok = "Role description" -> "role description"
      [] tok = "ROLE DESCRIPTION" -> "role description"
      [] tok = "Profile description" -> "profile description"
      [] tok = "PROFILE DESCRIPTION" -> "profile description"
      [] tok = "Date" -> "date"
      [] tok = "DATE" -> "date"
      [] OTHER -> tok
Lower(str) == [i \in 1..Len(str) |-> LowerTok(str[i])]

\* str.strip(): drop leading and trailing blanks.
RECURSIVE LStrip(_)
LStrip(str) ==
    IF str # <<>> /\ Head(str) = " " THEN LStrip(Tail(str)) ELSE str
RECURSIVE RStrip(_)
RStrip(str) ==
    IF str # <<>> /\ str[Len(str)] = " "
    THEN RStrip(SubSeq(str, 1, Len(str) - 1)) ELSE str
Strip(str) == RStrip(LStrip(str))

\* str.startswith.
StartsWith(str, prefix) ==
    /\ Len(prefix) <= Len(str)
    /\ SubSeq(str, 1, Len(prefix)) = prefix

\* Decimal text of a non-negative integer, and its inverse.
IsNatTok(tok) == \E k \in 0..MaxNum : ToString(k) = tok
NatOfTok(tok) == CHOOSE k \in 0..MaxNum : ToString(k) = tok

\* str(number).
StrOfNum(x) == IF x < 0 THEN <<"-", ToString(0 - x)>> ELSE <<ToString(x)>>

\* str(datetime): "2024-01-DD HH:MM".
StrOfTime(t) ==
    <<"2024", "-", "1", "-", ToString(dayOfMonth(t)), " ",
      ToString(hour(t)), ":", ToString(minute(t))>>

\* str(cell_value).
StrOf(c) ==
    CASE c.tag = "Text" -> c.s
      [] c.tag = "Number" -> StrOfNum(c.n)
      [] c.tag = "DateTime" -> StrOfTime(c.n)
      [] OTHER -> <<"nan">>

\* Parsing a string as a datetime (pd.to_datetime on a str): the full
\* "2024-01-DD HH:MM" form, or a bare year.
IsTimeStr(str) ==
    \/ /\ Len(str) = 9
       /\ str[1] = "2024" /\ str[2] = "-" /\ str[3] = "1" /\ str[4] = "-"
       /\ IsNatTok(str[5]) /\ NatOfTok(str[5]) \in 1..31
       /\ str[6] = " "
       /\ IsNatTok(str[7]) /\ NatOfTok(str[7]) \in 0..23
       /\ str[8] = ":"
       /\ IsNatTok(str[9]) /\ NatOfTok(str[9]) \in 0..59
    \/ str = <<"2024">>
TimeOfStr(str) ==
    IF Len(str) = 9
    THEN MkTime(NatOfTok(str[5]), NatOfTok(str[7]), NatOfTok(str[9]))
    ELSE MkTime(1, 0, 0)

\* Parsing a string as a number (pd.to_numeric on a str).
IsNumStr(str) ==
    \/ Len(str) = 1 /\ IsNatTok(str[1])
    \/ Len(str) = 2 /\ str[1] = "-" /\ IsNatTok(str[2])
NumOfStr(str) ==
    IF Len(str) = 1 THEN NatOfTok(str[1]) ELSE 0 - NatOfTok(str[2])

\* ------------------------------------------------------------------------
\* pd.to_datetime on one element of an object series.
\*   ok = FALSE : the element cannot be parsed (raises, or NaT if coerced)
\*   nat = TRUE : the element is missing (NaT)
\* ------------------------------------------------------------------------
NaT == [ok |-> TRUE, nat |-> TRUE, t |-> 0]
Unparseable == [ok |-> FALSE, nat |-> FALSE, t |-> 0]
Stamp(t) == [ok |-> TRUE, nat |-> FALSE, t |-> t]

to_datetime(c) ==
    CASE c.tag = "DateTime" -> Stamp(c.n)
      [] c.tag = "Empty" -> NaT
      [] c.tag = "Number" -> Stamp(EpochT)
      [] OTHER -> IF IsTimeStr(c.s) THEN Stamp(TimeOfStr(c.s)) ELSE Unparseable

\* pd.to_datetime(..., errors='coerce'): unparseable becomes NaT.  (A number
\* beside datetimes becomes NaT or the epoch, depending on the pandas
\* release; both lie before every start date.)
to_datetime_coerce(c) ==
    IF to_datetime(c).ok THEN to_datetime(c) ELSE NaT

\* ------------------------------------------------------------------------
\* pd.to_numeric(..., errors='coerce').astype(float) on one element.
\* ------------------------------------------------------------------------
NaN == [nan |-> TRUE, x |-> 0]
Float(x) == [nan |-> FALSE, x |-> x]

to_numeric(c) ==
    CASE c.tag = "Number" -> Float(c.n)
      [] c.tag = "Text" -> IF IsNumStr(c.s) THEN Float(NumOfStr(c.s)) ELSE NaN
      [] OTHER -> NaN

\* ------------------------------------------------------------------------
\* is_peak_hour.  The argument is a str (Text cell), a pd.Timestamp
\* (DateTime cell) or NaT (Empty cell); NaT.weekday() and NaT.hour are nan
\* and every comparison with nan is False.  A str that pd.to_datetime cannot
\* parse raises.
\* ------------------------------------------------------------------------
Raised == [raised |-> TRUE, peak |-> FALSE]
Returned(b) == [raised |-> FALSE, peak |-> b]

\* Mutant: the upper bound of the peak window is closed.
is_peak_hour_closed(c) ==
    LET ts == to_datetime(c) IN
    IF c.tag = "Number" \/ ~ts.ok THEN Raised
    ELSE IF ts.nat THEN Returned(FALSE)
    ELSE IF weekday(ts.t) >= 5 THEN Returned(FALSE)
    ELSE Returned(7 <= hour(ts.t) /\ hour(ts.t) <= 22)

is_peak_hour(c) ==
    LET ts == to_datetime(c) IN
    IF c.tag = "Number" \/ ~ts.ok THEN Raised
    ELSE IF ts.nat THEN Returned(FALSE)
    ELSE IF weekday(ts.t) >= 5 THEN Returned(FALSE)
    ELSE Returned(7 <= hour(ts.t) /\ hour(ts.t) < 22)

\* ------------------------------------------------------------------------
\* The EAN mapping: a dict, in insertion order, of key -> EANMapping.
\* ------------------------------------------------------------------------
EANMapping(src, var) == [source_id |-> src, variable_id |-> var]
Entry(k, m) == [key |-> k, mapping |-> m]

KeysOf(ean_mapping) == [i \in 1..Len(ean_mapping) |-> ean_mapping[i].key]
HasKey(ean_mapping, k) == \E i \in 1..Len(ean_mapping) : ean_mapping[i].key = k
Lookup(ean_mapping, k) ==
    ean_mapping[CHOOSE i \in 1..Len(ean_mapping) : ean_mapping[i].key = k].mapping

\* f"{ean}_peak", f"{ean}_offpeak".
PeakKey(ean) == Append(ean, "_peak")
OffpeakKey(ean) == Append(ean, "_offpeak")

\* Mutant: the whole list.
Take_all(sq, n) == sq
\* seq[:n]
Take(sq, n) == SubSeq(sq, 1, IF Len(sq) < n THEN Len(sq) ELSE n)

RECURSIVE SelectStartsWith(_, _)
SelectStartsWith(keys, ean) ==
    IF keys = <<>> THEN <<>>
    ELSE (IF StartsWith(Head(keys), ean) THEN <<Head(keys)>> ELSE <<>>)
         \o SelectStartsWith(Tail(keys), ean)

Found(k, m) == [ok |-> TRUE, key |-> k, mapping |-> m, err |-> "", keys |-> <<>>]
KeyError(kind, ks) ==
    [ok |-> FALSE, key |-> <<>>, mapping |-> EANMapping("", ""), err |-> kind,
     keys |-> ks]

\* Mutant: a missing variant falls back to the other period's variant.
find_ean_mapping_other_variant(ean, ean_mapping, is_peak) ==
    LET variant_key == IF is_peak = "True" THEN PeakKey(ean) ELSE OffpeakKey(ean)
        other_key == IF is_peak = "True" THEN OffpeakKey(ean) ELSE PeakKey(ean)
    IN
    IF is_peak # "None" /\ HasKey(ean_mapping, variant_key)
    THEN Found(variant_key, Lookup(ean_mapping, variant_key))
    ELSE IF is_peak # "None" /\ HasKey(ean_mapping, other_key)
    THEN Found(other_key, Lookup(ean_mapping, other_key))
    ELSE IF HasKey(ean_mapping, ean)
    THEN Found(ean, Lookup(ean_mapping, ean))
    ELSE IF HasKey(ean_mapping, PeakKey(ean)) \/ HasKey(ean_mapping, OffpeakKey(ean))
    THEN KeyError("variants_no_period", <<>>)
    ELSE KeyError("not_found", Take(KeysOf(ean_mapping), 5))

\* Mutant: without a period, a missing bare key defaults to the peak variant.
find_ean_mapping_default_peak(ean, ean_mapping, is_peak) ==
    LET variant_key ==
            IF is_peak = "False" THEN OffpeakKey(ean) ELSE PeakKey(ean)
    IN
    IF is_peak # "None" /\ HasKey(ean_mapping, variant_key)
    THEN Found(variant_key, Lookup(ean_mapping, variant_key))
    ELSE IF HasKey(ean_mapping, ean)
    THEN Found(ean, Lookup(ean_mapping, ean))
    ELSE IF HasKey(ean_mapping, variant_key)
    THEN Found(variant_key, Lookup(ean_mapping, variant_key))
    ELSE IF HasKey(ean_mapping, PeakKey(ean)) \/ HasKey(ean_mapping, OffpeakKey(ean))
    THEN KeyError("variants_no_period", <<>>)
    ELSE KeyError("not_found", Take(KeysOf(ean_mapping), 5))

\* find_ean_mapping(ean, ean_mapping, is_peak), is_peak in "None", "True",
\* "False".
\* Mutant: the bare key is tried before the variant key.
find_ean_mapping_bare_first(ean, ean_mapping, is_peak) ==
    LET variant_key == IF is_peak = "True" THEN PeakKey(ean) ELSE OffpeakKey(ean)
        similar == SelectStartsWith(KeysOf(ean_mapping), ean)
    IN
    IF HasKey(ean_mapping, ean) THEN Found(ean, Lookup(ean_mapping, ean))
    ELSE IF is_peak # "None" /\ HasKey(ean_mapping, variant_key)
    THEN Found(variant_key, Lookup(ean_mapping, variant_key))
    ELSE IF HasKey(ean_mapping, PeakKey(ean)) \/ HasKey(ean_mapping, OffpeakKey(ean))
    THEN (IF is_peak = "None" THEN KeyError("variants_no_period", <<>>)
          ELSE KeyError("variant_missing", <<>>))
    ELSE IF similar # <<>> THEN KeyError("similar", similar)
    ELSE KeyError("not_found", Take(KeysOf(ean_mapping), 5))

find_ean_mapping(ean, ean_mapping, is_peak) ==
    LET variant_key == IF is_peak = "True" THEN PeakKey(ean) ELSE OffpeakKey(ean)
        similar == SelectStartsWith(KeysOf(ean_mapping), ean)
    IN
    IF is_peak # "None" /\ HasKey(ean_mapping, variant_key)
    THEN Found(variant_key, Lookup(ean_mapping, variant_key))
    ELSE IF HasKey(ean_mapping, ean)
    THEN Found(ean, Lookup(ean_mapping, ean))
    ELSE IF HasKey(ean_mapping, PeakKey(ean)) \/ HasKey(ean_mapping, OffpeakKey(ean))
    THEN (IF is_peak = "None"
          THEN KeyError("variants_no_period", <<>>)
          ELSE KeyError("variant_missing", <<>>))
    ELSE IF similar # <<>>
    THEN KeyError("similar", similar)
    ELSE KeyError("not_found", Take(KeysOf(ean_mapping), 5))

\* Mutant: either variant suffices.
has_peak_offpeak_variants_any(ean, ean_mapping) ==
    HasKey(ean_mapping, PeakKey(ean)) \/ HasKey(ean_mapping, OffpeakKey(ean))

has_peak_offpeak_variants(ean, ean_mapping) ==
    HasKey(ean_mapping, PeakKey(ean)) /\ HasKey(ean_mapping, OffpeakKey(ean))

\* ------------------------------------------------------------------------
\* Series: sequences of [src, c] (timestamps) and [src, v] (values); src is
\* the grid row the element was read from.
\* ------------------------------------------------------------------------
\* series[mask].reset_index(drop=True)
RECURSIVE MaskSelectFrom(_, _, _)
MaskSelectFrom(series, mask, i) ==
    IF i > Len(series) \/ i > Len(mask) THEN <<>>
    ELSE (IF mask[i] THEN <<series[i]>> ELSE <<>>)
         \o MaskSelectFrom(series, mask, i + 1)
MaskSelect(series, mask) == MaskSelectFrom(series, mask, 1)

Not(mask) == [i \in 1..Len(mask) |-> ~mask[i]]

\* pd.to_datetime(timestamps) raises on an element it cannot parse.
CanConvert(timestamps) ==
    \A i \in 1..Len(timestamps) : to_datetime(timestamps[i].c).ok

\* The series holds both datetimes and numbers.
MixedNumbers(timestamps) ==
    /\ \E i \in 1..Len(timestamps) : timestamps[i].c.tag = "Number"
    /\ \E i \in 1..Len(timestamps) : timestamps[i].c.tag = "DateTime"

\* An element of the converted series, as is_peak_hour receives it.
AsStamp(c) ==
    IF to_datetime(c).nat THEN EmptyCell ELSE DateCell(to_datetime(c).t)

peak_mask_of(timestamps) ==
    [i \in 1..Len(timestamps) |-> is_peak_hour(AsStamp(timestamps[i].c)).peak]

\* Mutant: the offpeak values are selected with the peak mask.
split_data_by_period_same_mask(timestamps, values) ==
    LET peak_mask == peak_mask_of(timestamps) IN
    [peak_timestamps |-> MaskSelect(timestamps, peak_mask),
     peak_values |-> MaskSelect(values, peak_mask),
     offpeak_timestamps |-> MaskSelect(timestamps, Not(peak_mask)),
     offpeak_values |-> MaskSelect(values, peak_mask)]

split_data_by_period(timestamps, values) ==
    LET peak_mask == peak_mask_of(timestamps) IN
    [peak_timestamps |-> MaskSelect(timestamps, peak_mask),
     peak_values |-> MaskSelect(values, peak_mask),
     offpeak_timestamps |-> MaskSelect(timestamps, Not(peak_mask)),
     offpeak_values |-> MaskSelect(values, Not(peak_mask))]

\* ------------------------------------------------------------------------
\* The grid (excel_df): a sequence of rows, each a sequence of cells.  Row
\* and column indices are 0-based, as with DataFrame.iloc.
\* ------------------------------------------------------------------------
NRows(excel_df) == Len(excel_df)
NCols(excel_df) == IF excel_df = <<>> THEN 0 ELSE Len(excel_df[1])
CellAt(excel_df, r, c) == excel_df[r + 1][c + 1]
RowAt(excel_df, r) == excel_df[r + 1]
Min(a, b) == IF a < b THEN a ELSE b
Max(a, b) == IF a < b THEN b ELSE a

\* ParserConfig defaults.
header_row_default == 0
header_col_default == 1
min_rows_default == 6
min_cols_default == 3

NoDate == [set |-> FALSE, t |-> 0]
SomeDate(t) == [set |-> TRUE, t |-> t]
ParserConfig(start_date) ==
    [header_row |-> header_row_default, header_col |-> header_col_default,
     min_rows |-> min_rows_default, min_cols |-> min_cols_default,
     start_date |-> start_date]

\* Mutant: the column count is tested before the row count.
validate_excel_structure_cols_first(excel_df, config) ==
    IF NCols(excel_df) < config.min_cols THEN "insufficient_cols"
    ELSE IF NRows(excel_df) < config.min_rows THEN "insufficient_rows"
    ELSE IF isna(CellAt(excel_df, config.header_row, config.header_col))
    THEN "header_cell_empty"
    ELSE ""

\* validate_excel_structure: "" when the structure is accepted, else the
\* check that failed.
validate_excel_structure(excel_df, config) ==
    IF NRows(excel_df) < config.min_rows THEN "insufficient_rows"
    ELSE IF NCols(excel_df) < config.min_cols THEN "insufficient_cols"
    ELSE IF isna(CellAt(excel_df, config.header_row, config.header_col))
    THEN "header_cell_empty"
    ELSE ""

\* '_' in s, and s.split('_', maxsplit=1)[0].
IsUnderscore(tok) == tok \in {"_", "_peak", "_offpeak"}
HasUnderscore(str) == \E i \in 1..Len(str) : IsUnderscore(str[i])
\* Mutant: s.rsplit('_', maxsplit=1)[0].
BeforeUnderscore_last(str) ==
    LET i == CHOOSE j \in 1..Len(str) :
                 /\ IsUnderscore(str[j])
                 /\ \A k \in (j + 1)..Len(str) : ~IsUnderscore(str[k])
    IN SubSeq(str, 1, i - 1)
BeforeUnderscore(str) ==
    LET i == CHOOSE j \in 1..Len(str) :
                 /\ IsUnderscore(str[j])
                 /\ \A k \in 1..(j - 1) : ~IsUnderscore(str[k])
    IN SubSeq(str, 1, i - 1)

\* extract_ean_from_excel.
extract_ean_from_excel(excel_df, config) ==
    LET ean_raw == CellAt(excel_df, config.header_row, config.header_col) IN
    IF isna(ean_raw) \/ ~HasUnderscore(StrOf(ean_raw))
    THEN [ok |-> FALSE, ean |-> <<>>, err |-> "invalid_ean_format"]
    ELSE IF Strip(BeforeUnderscore(StrOf(ean_raw))) = <<>>
    THEN [ok |-> FALSE, ean |-> <<>>, err |-> "ean_empty"]
    ELSE [ok |-> TRUE, ean |-> Strip(BeforeUnderscore(StrOf(ean_raw))), err |-> ""]

\* A row has a cell whose lower-cased text contains the marker.
RowHasMarker(row, marker) ==
    \E c \in 1..Len(row) : notna(row[c]) /\ InStr(marker, Lower(StrOf(row[c])))

\* The header row: the first of the first 5 rows with "role description";
\* -1 stands for None.
HeaderWindow == 5
DataWindow == 6
\* Mutant: the header is searched in the window of find_data_start_row.
find_header_row_wide(excel_df) ==
    LET hits == {r \in 0..(Min(DataWindow, NRows(excel_df)) - 1) :
                    RowHasMarker(RowAt(excel_df, r), "role description")}
    IN IF hits = {} THEN -1 ELSE CHOOSE r \in hits : \A q \in hits : r <= q
find_header_row(excel_df) ==
    LET hits == {r \in 0..(Min(HeaderWindow, NRows(excel_df)) - 1) :
                    RowHasMarker(RowAt(excel_df, r), "role description")}
    IN IF hits = {} THEN -1 ELSE CHOOSE r \in hits : \A q \in hits : r <= q

MEASURED_ACTIVE_CONSUMPTION == <<"MEASURED", " ", "ACTIVE CONSUMPTION">>

ColFound(c) == [ok |-> TRUE, col |-> c, err |-> "", types |-> <<>>]
ColError(kind, ts) == [ok |-> FALSE, col |-> -1, err |-> kind, types |-> ts]

RECURSIVE MeasuredTypes(_)
MeasuredTypes(row) ==
    IF row = <<>> THEN <<>>
    ELSE (IF notna(Head(row)) /\ StartsWith(Strip(StrOf(Head(row))), <<"MEASURED">>)
          THEN <<Strip(StrOf(Head(row)))>> ELSE <<>>)
         \o MeasuredTypes(Tail(row))

\* Mutant: without a matching label the third column is taken.
find_consumption_column_fallback(excel_df, consumption_type) ==
    LET h == find_header_row(excel_df)
        row == RowAt(excel_df, h)
        hits == {c \in 0..(Len(row) - 1) :
                    notna(row[c + 1]) /\ Strip(StrOf(row[c + 1])) = consumption_type}
    IN
    IF NRows(excel_df) < 2 THEN ColError("not_enough_rows", <<>>)
    ELSE IF h = -1 THEN ColError("header_not_found", <<>>)
    ELSE IF hits # {} THEN ColFound(CHOOSE c \in hits : \A d \in hits : c <= d)
    ELSE ColFound(2)

\* find_consumption_column.
find_consumption_column(excel_df, consumption_type) ==
    LET h == find_header_row(excel_df)
        row == RowAt(excel_df, h)
        hits == {c \in 0..(Len(row) - 1) :
                    notna(row[c + 1]) /\ Strip(StrOf(row[c + 1])) = consumption_type}
    IN
    IF NRows(excel_df) < 2 THEN ColError("not_enough_rows", <<>>)
    ELSE IF h = -1 THEN ColError("header_not_found", <<>>)
    ELSE IF hits # {} THEN ColFound(CHOOSE c \in hits : \A d \in hits : c <= d)
    ELSE ColError("type_not_found", MeasuredTypes(row))

\* find_data_start_row.
DefaultDataStart == 4
\* Mutant: the marker row itself is taken as the first data row.
find_data_start_row_at_marker(excel_df) ==
    LET hits == {r \in 0..(Min(DataWindow, NRows(excel_df)) - 1) :
                    RowHasMarker(RowAt(excel_df, r), "profile description")}
    IN IF hits = {} THEN DefaultDataStart
       ELSE CHOOSE r \in hits : \A q \in hits : r <= q
find_data_start_row(excel_df) ==
    LET hits == {r \in 0..(Min(DataWindow, NRows(excel_df)) - 1) :
                    RowHasMarker(RowAt(excel_df, r), "profile description")}
    IN IF hits = {} THEN DefaultDataStart
       ELSE (CHOOSE r \in hits : \A q \in hits : r <= q) + 1

\* The year tokens the date heuristics look for.
HasYear(str) ==
    InStr("2024", str) \/ InStr("2023", str) \/ InStr("2025", str) \/ InStr("2022", str)

\* excel_df.iloc[r0:r0+n, col]: the cells of the rows that exist.
SampleRows(excel_df, r0, n) ==
    {r \in r0..(r0 + n - 1) : r < NRows(excel_df)}

\* Headerless heuristic: year, '-' or ':' in the text.
DateLikeLoose(c) ==
    notna(c) /\ (HasYear(StrOf(c)) \/ InStr("-", StrOf(c)) \/ InStr(":", StrOf(c)))
\* With a header: year or ':' in the text, and the text parses as a datetime.
DateLikeStrict(c) ==
    notna(c) /\ (HasYear(StrOf(c)) \/ InStr(":", StrOf(c))) /\ IsTimeStr(StrOf(c))

FirstOf(cols) == CHOOSE c \in cols : \A d \in cols : c <= d

\* Mutant: the data rows are looked at before the labels of the header row.
find_timestamp_column_data_first(excel_df) ==
    LET h == find_header_row(excel_df)
        data_start_row == find_data_start_row(excel_df)
        cols == 0..(Min(4, NCols(excel_df)) - 1)
        loose == {c \in cols :
                     Cardinality({r \in SampleRows(excel_df, data_start_row, 3) :
                         DateLikeLoose(CellAt(excel_df, r, c))}) >= 2}
        row == RowAt(excel_df, h)
        dates == {c \in 0..(Len(row) - 1) :
                     notna(row[c + 1]) /\ InStr("date", Lower(StrOf(row[c + 1])))}
        strict == {c \in cols :
                      Cardinality({r \in SampleRows(excel_df, data_start_row, 5) :
                          DateLikeStrict(CellAt(excel_df, r, c))}) >= 3}
        cons == find_consumption_column(excel_df, MEASURED_ACTIVE_CONSUMPTION)
    IN
    IF h = -1
    THEN (IF loose # {} THEN FirstOf(loose) ELSE 0)
    ELSE IF strict # {} THEN FirstOf(strict)
    ELSE IF dates # {} THEN FirstOf(dates)
    ELSE IF cons.ok /\ cons.col > 0 THEN cons.col - 1
    ELSE 0

\* Mutant: the column right of the value column is inferred.
find_timestamp_column_right(excel_df) ==
    LET h == find_header_row(excel_df)
        data_start_row == find_data_start_row(excel_df)
        cols == 0..(Min(4, NCols(excel_df)) - 1)
        loose == {c \in cols :
                     Cardinality({r \in SampleRows(excel_df, data_start_row, 3) :
                         DateLikeLoose(CellAt(excel_df, r, c))}) >= 2}
        row == RowAt(excel_df, h)
        dates == {c \in 0..(Len(row) - 1) :
                     notna(row[c + 1]) /\ InStr("date", Lower(StrOf(row[c + 1])))}
        strict == {c \in cols :
                      Cardinality({r \in SampleRows(excel_df, data_start_row, 5) :
                          DateLikeStrict(CellAt(excel_df, r, c))}) >= 3}
        cons == find_consumption_column(excel_df, MEASURED_ACTIVE_CONSUMPTION)
    IN
    IF h = -1
    THEN (IF loose # {} THEN FirstOf(loose) ELSE 0)
    ELSE IF dates # {} THEN FirstOf(dates)
    ELSE IF strict # {} THEN FirstOf(strict)
    ELSE IF cons.ok /\ cons.col > 0 THEN cons.col + 1
    ELSE 0

\* find_timestamp_column.
find_timestamp_column(excel_df) ==
    LET h == find_header_row(excel_df)
        data_start_row == find_data_start_row(excel_df)
        cols == 0..(Min(4, NCols(excel_df)) - 1)
        loose == {c \in cols :
                     Cardinality({r \in SampleRows(excel_df, data_start_row, 3) :
                         DateLikeLoose(CellAt(excel_df, r, c))}) >= 2}
        row == RowAt(excel_df, h)
        dates == {c \in 0..(Len(row) - 1) :
                     notna(row[c + 1]) /\ InStr("date", Lower(StrOf(row[c + 1])))}
        strict == {c \in cols :
                      Cardinality({r \in SampleRows(excel_df, data_start_row, 5) :
                          DateLikeStrict(CellAt(excel_df, r, c))}) >= 3}
        cons == find_consumption_column(excel_df, MEASURED_ACTIVE_CONSUMPTION)
    IN
    IF h = -1
    THEN (IF loose # {} THEN FirstOf(loose) ELSE 0)
    ELSE IF dates # {} THEN FirstOf(dates)
    ELSE IF strict # {} THEN FirstOf(strict)
    ELSE IF cons.ok /\ cons.col > 0 THEN cons.col - 1
    ELSE 0

\* ------------------------------------------------------------------------
\* extract_data_from_excel, stage by stage.
\* ------------------------------------------------------------------------
\* excel_df.iloc[data_start_row:, col].reset_index(drop=True)
SliceColumn(excel_df, data_start_row, col) ==
    [i \in 1..Max(0, NRows(excel_df) - data_start_row) |->
        [src |-> data_start_row + i - 1,
         c |-> CellAt(excel_df, data_start_row + i - 1, col)]]

\* pd.to_numeric(values, errors='coerce').astype(float).reset_index(drop=True)
CoerceValues(raw) ==
    [i \in 1..Len(raw) |-> [src |-> raw[i].src, v |-> to_numeric(raw[i].c)]]

\* Mutant: the comparison with start_date is strict.
valid_indices_strict(timestamps, start_date) ==
    [i \in 1..Len(timestamps) |->
        LET d == to_datetime_coerce(timestamps[i].c) IN
        ~d.nat /\ d.t > start_date.t]

\* valid_indices = pd.to_datetime(timestamps, errors='coerce') >= start_date
valid_indices(timestamps, start_date) ==
    [i \in 1..Len(timestamps) |->
        LET d == to_datetime_coerce(timestamps[i].c) IN
        ~d.nat /\ d.t >= start_date.t]

FilterTimestamps(timestamps, start_date) ==
    MaskSelect(timestamps, valid_indices(timestamps, start_date))
\* Mutant: the values are filtered by a mask computed after the timestamps
\* were already filtered.
FilterValues_stale_mask(timestamps, values, start_date) ==
    MaskSelect(values,
               valid_indices(FilterTimestamps(timestamps, start_date), start_date))
FilterValues(timestamps, values, start_date) ==
    MaskSelect(values, valid_indices(timestamps, start_date))

\* ------------------------------------------------------------------------
\* create_output_dataframe: the nine CSV columns.  The two series are
\* aligned on their (reset) index; a position one of them lacks is missing.
\* ------------------------------------------------------------------------
MissingDate == [src |-> -1, c |-> EmptyCell]
MissingValue == [src |-> -1, v |-> NaN]

\* Mutant: rows with a missing value are dropped (a dropna()).
create_output_dataframe_dropna(ts, vals, ean, mapping) ==
    LET keep == [i \in 1..Len(vals) |-> ~vals[i].v.nan]
        kts == MaskSelect(ts, keep)
        kvals == MaskSelect(vals, keep)
    IN
    [i \in 1..Len(kvals) |->
        [date |-> kts[i],
         value |-> kvals[i],
         meternumber |-> ean,
         source_id |-> mapping.source_id,
         source_serialnumber |-> "",
         source_ean |-> "",
         source_name |-> "",
         mapping_config |-> "",
         variable_id |-> mapping.variable_id]]

create_output_dataframe(ts, vals, ean, mapping) ==
    [i \in 1..Max(Len(ts), Len(vals)) |->
        [date |-> IF i <= Len(ts) THEN ts[i] ELSE MissingDate,
         value |-> IF i <= Len(vals) THEN vals[i] ELSE MissingValue,
         meternumber |-> ean,
         source_id |-> mapping.source_id,
         source_serialnumber |-> "",
         source_ean |-> "",
         source_name |-> "",
         mapping_config |-> "",
         variable_id |-> mapping.variable_id]]

\* ------------------------------------------------------------------------
\* State.
\* ------------------------------------------------------------------------
VARIABLES
    excel_df,          \* the loaded worksheet
    ean_mapping,       \* the EAN mapping dict
    config,            \* ParserConfig
    consumption_type,  \* label of the value column
    pc,                \* next statement of parse_renewgy_excel_to_csv
    bi_hourly,         \* result of has_peak_offpeak_variants
    ean,               \* extracted EAN
    mapping,           \* [std, peak, offpeak] mappings found so far
    value_col, timestamp_col, data_start_row,
    timestamps, values,
    parts,             \* result of split_data_by_period
    files,             \* the output directory: path -> file
    error,             \* the exception raised, if any
    call,              \* argument and result of a function applied on its own
    output_path,       \* the output_path argument
    batch,             \* process_multiple_files: the files found and the results
    suspended          \* the conversion of a second request thread, waiting

vars == <<excel_df, ean_mapping, config, consumption_type, pc, bi_hourly, ean,
          mapping, value_col, timestamp_col, data_start_row, timestamps, values,
          parts, files, error, call, output_path, batch, suspended>>

\* What no statement of parse_renewgy_excel_to_csv assigns: its arguments
\* and the state of its callers.
inputs ==
    <<excel_df, ean_mapping, config, consumption_type, output_path, batch, suspended>>

\* ------------------------------------------------------------------------
\* Output paths: output_path.parent / f"{stem}_peak{suffix}".
\* ------------------------------------------------------------------------
Stems == {<<"X">>, <<"Y">>}
CsvPath(stem) == [stem |-> stem, suffix |-> ".csv"]
PeakPath(out) == [stem |-> Append(out.stem, "_peak"), suffix |-> out.suffix]
OffpeakPath(out) == [stem |-> Append(out.stem, "_offpeak"), suffix |-> out.suffix]
\* Mutant: the peak file takes the logical output path.
peak_output_path_plain == [stem |-> output_path.stem, suffix |-> output_path.suffix]
peak_output_path == PeakPath(output_path)
offpeak_output_path == OffpeakPath(output_path)
Paths ==
    UNION {{CsvPath(st), PeakPath(CsvPath(st)), OffpeakPath(CsvPath(st))} : st \in Stems}

NoFile == [exists |-> FALSE, rows |-> <<>>]
File(rows) == [exists |-> TRUE, rows |-> rows]

NoBatch ==
    [input_files |-> <<>>, next |-> 0, results |-> <<>>, calls |-> <<>>,
     returned |-> FALSE]
NoThread == [pc |-> "none"]

NoError == [type |-> "", kind |-> ""]
ValueError(kind) == [type |-> "ValueError", kind |-> kind]
KeyErr(kind) == [type |-> "KeyError", kind |-> kind]

NoMapping == EANMapping("", "")
NoParts ==
    [peak_timestamps |-> <<>>, peak_values |-> <<>>,
     offpeak_timestamps |-> <<>>, offpeak_values |-> <<>>]
NoCall == [fn |-> "", arg |-> <<>>, ret |-> <<>>, done |-> FALSE]

Fail(e) == pc' = "failed" /\ error' = e

\* ------------------------------------------------------------------------
\* Inputs: worksheets, mappings and configurations the runs are drawn from.
\* ------------------------------------------------------------------------
EanCell == TextCell(<<"5", "4", "_", "A">>)
EanRow == <<TextCell(<<"EAN">>), EanCell, EmptyCell>>
HeaderRowDate ==
    <<TextCell(<<"Date">>), TextCell(<<"Role description">>),
      TextCell(MEASURED_ACTIVE_CONSUMPTION)>>
HeaderRowPlain ==
    <<TextCell(<<"Role description">>), EmptyCell,
      TextCell(MEASURED_ACTIVE_CONSUMPTION)>>
UnitRow == <<EmptyCell, EmptyCell, TextCell(<<"kWh">>)>>
BlankRow == <<EmptyCell, EmptyCell, EmptyCell>>
ProfileRow == <<TextCell(<<"Profile description">>), EmptyCell, EmptyCell>>

\* Leading rows: the usual export; the same with the profile marker on the
\* sixth row; one with an unlabeled timestamp column; one without the
\* profile marker.
Layouts ==
    {<<EanRow, HeaderRowDate, UnitRow, ProfileRow>>,
     <<EanRow, HeaderRowDate, UnitRow, BlankRow, BlankRow, ProfileRow>>,
     <<EanRow, HeaderRowPlain, UnitRow, BlankRow, BlankRow, ProfileRow>>,
     <<EanRow, HeaderRowPlain, UnitRow, BlankRow, BlankRow>>}

DataRow(tsCell, valCell) == <<tsCell, EmptyCell, valCell>>
DataRows ==
    {DataRow(DateCell(MkTime(1, 7, 0)), NumCell(5)),
     DataRow(DateCell(MkTime(1, 23, 59)), EmptyCell),
     DataRow(DateCell(MkTime(2, 0, 0)), TextCell(<<"abc">>)),
     DataRow(TextCell(StrOfTime(MkTime(2, 21, 59))), TextCell(<<"7">>)),
     DataRow(DateCell(MkTime(6, 12, 0)), NumCell(3)),
     DataRow(TextCell(<<"n/a">>), NumCell(1)),
     DataRow(EmptyCell, NumCell(2)),
     DataRow(NumCell(42), NumCell(-4))}

RECURSIVE SeqsUpTo(_, _)
SeqsUpTo(S, n) ==
    IF n = 0 THEN {<<>>}
    ELSE SeqsUpTo(S, n - 1)
         \cup {Append(sq, x) : sq \in {q \in SeqsUpTo(S, n - 1) : Len(q) = n - 1}, x \in S}

Grids == {l \o d : l \in Layouts, d \in SeqsUpTo(DataRows, MaxDataRows)}

\* The mapping dicts: every choice among the bare, peak and offpeak keys of
\* the worksheet's EAN, after an unrelated key.
SheetEan == <<"5", "4">>
OtherEntry == Entry(<<"9">>, EANMapping("src_other", "var_other"))
BareEntryOf(id) == Entry(id, EANMapping("src_bare", "var_bare"))
PeakEntryOf(id) == Entry(PeakKey(id), EANMapping("src_peak", "var_peak"))
OffpeakEntryOf(id) == Entry(OffpeakKey(id), EANMapping("src_offpeak", "var_offpeak"))
Opt(b, e) == IF b THEN <<e>> ELSE <<>>
MappingsFor(id) ==
    {<<OtherEntry>> \o Opt(b, BareEntryOf(id)) \o Opt(p, PeakEntryOf(id))
        \o Opt(o, OffpeakEntryOf(id)) :
        b \in BOOLEAN, p \in BOOLEAN, o \in BOOLEAN}
Mappings == MappingsFor(SheetEan)

StartDates == {NoDate, SomeDate(MkTime(2, 0, 0))}

\* ------------------------------------------------------------------------
\* parse_renewgy_excel_to_csv.
\* ------------------------------------------------------------------------
Init ==
    /\ excel_df \in Grids
    /\ ean_mapping \in Mappings
    /\ config \in {ParserConfig(d) : d \in StartDates}
    /\ consumption_type = MEASURED_ACTIVE_CONSUMPTION
    /\ pc = "validate"
    /\ bi_hourly = FALSE
    /\ ean = <<>>
    /\ mapping = [std |-> NoMapping, peak |-> NoMapping, offpeak |-> NoMapping]
    /\ value_col = -1
    /\ timestamp_col = -1
    /\ data_start_row = -1
    /\ timestamps = <<>>
    /\ values = <<>>
    /\ parts = NoParts
    /\ files = [p \in Paths |-> NoFile]
    /\ error = NoError
    /\ call = NoCall
    /\ output_path = CsvPath(<<"X">>)
    /\ batch = NoBatch
    /\ suspended = NoThread

\* validate_excel_structure(excel_df, config)
Validate ==
    /\ pc = "validate"
    /\ IF validate_excel_structure(excel_df, config) = ""
       THEN pc' = "extract_ean" /\ UNCHANGED error
       ELSE Fail(ValueError(validate_excel_structure(excel_df, config)))
    /\ UNCHANGED <<inputs, bi_hourly, ean, mapping, value_col, timestamp_col,
                   data_start_row, timestamps, values, parts, files, call>>

\* ean = extract_ean_from_excel(excel_df, config)
ExtractEan ==
    /\ pc = "extract_ean"
    /\ LET r == extract_ean_from_excel(excel_df, config) IN
       IF r.ok
       THEN pc' = "branch" /\ ean' = r.ean /\ UNCHANGED error
       ELSE Fail(ValueError(r.err)) /\ UNCHANGED ean
    /\ UNCHANGED <<inputs, bi_hourly, mapping, value_col, timestamp_col,
                   data_start_row, timestamps, values, parts, files, call>>

\* if has_peak_offpeak_variants(ean, ean_mapping): ... else: ...
Branch ==
    /\ pc = "branch"
    /\ bi_hourly' = has_peak_offpeak_variants(ean, ean_mapping)
    /\ pc' = IF bi_hourly' THEN "find_value_col" ELSE "find_mapping"
    /\ UNCHANGED <<inputs, ean, mapping, value_col, timestamp_col, data_start_row,
                   timestamps, values, parts, files, error, call>>

\* Mutant: the mapping is not checked before the extraction starts.
FindMapping_deferred ==
    /\ pc = "find_mapping"
    /\ pc' = "find_value_col"
    /\ UNCHANGED <<inputs, bi_hourly, ean, mapping, value_col, timestamp_col,
                   data_start_row, timestamps, values, parts, files, error, call>>

\* mapping = find_ean_mapping(ean, ean_mapping)
FindMapping ==
    /\ pc = "find_mapping"
    /\ LET r == find_ean_mapping(ean, ean_mapping, "None") IN
       IF r.ok
       THEN pc' = "find_value_col" /\ mapping' = [mapping EXCEPT !.std = r.mapping]
            /\ UNCHANGED error
       ELSE Fail(KeyErr(r.err)) /\ UNCHANGED mapping
    /\ UNCHANGED <<inputs, bi_hourly, ean, value_col, timestamp_col, data_start_row,
                   timestamps, values, parts, files, call>>

\* Mutant: a missing header row does not stop the extraction.
FindValueCol_lenient ==
    /\ pc = "find_value_col"
    /\ LET r == find_consumption_column(excel_df, consumption_type) IN
       IF r.ok \/ r.err = "header_not_found"
       THEN pc' = "find_timestamp_col" /\ value_col' = r.col /\ UNCHANGED error
       ELSE Fail(ValueError(r.err)) /\ UNCHANGED value_col
    /\ UNCHANGED <<inputs, bi_hourly, ean, mapping, timestamp_col, data_start_row,
                   timestamps, values, parts, files, call>>

\* value_col = find_consumption_column(excel_df, consumption_type)
FindValueCol ==
    /\ pc = "find_value_col"
    /\ LET r == find_consumption_column(excel_df, consumption_type) IN
       IF r.ok
       THEN pc' = "find_timestamp_col" /\ value_col' = r.col /\ UNCHANGED error
       ELSE Fail(ValueError(r.err)) /\ UNCHANGED value_col
    /\ UNCHANGED <<inputs, bi_hourly, ean, mapping, timestamp_col, data_start_row,
                   timestamps, values, parts, files, call>>

\* timestamp_col = find_timestamp_column(excel_df)
FindTimestampCol ==
    /\ pc = "find_timestamp_col"
    /\ timestamp_col' = find_timestamp_column(excel_df)
    /\ pc' = "find_data_start"
    /\ UNCHANGED <<inputs, bi_hourly, ean, mapping, value_col, data_start_row,
                   timestamps, values, parts, files, error, call>>

\* data_start_row = find_data_start_row(excel_df)
FindDataStart ==
    /\ pc = "find_data_start"
    /\ data_start_row' = find_data_start_row(excel_df)
    /\ pc' = "slice"
    /\ UNCHANGED <<inputs, bi_hourly, ean, mapping, value_col, timestamp_col,
                   timestamps, values, parts, files, error, call>>

\* timestamps = excel_df.iloc[data_start_row:, timestamp_col]...
\* values = excel_df.iloc[data_start_row:, value_col]
Slice ==
    /\ pc = "slice"
    /\ timestamps' = SliceColumn(excel_df, data_start_row, timestamp_col)
    /\ values' = SliceColumn(excel_df, data_start_row, value_col)
    /\ pc' = "coerce"
    /\ UNCHANGED <<inputs, bi_hourly, ean, mapping, value_col, timestamp_col,
                   data_start_row, parts, files, error, call>>

\* values = pd.to_numeric(values, errors='coerce').astype(float)
Coerce ==
    /\ pc = "coerce"
    /\ values' = CoerceValues(values)
    /\ pc' = "filter"
    /\ UNCHANGED <<inputs, bi_hourly, ean, mapping, value_col, timestamp_col,
                   data_start_row, timestamps, parts, files, error, call>>

\* if config.start_date is not None: filter both series
Filter ==
    /\ pc = "filter"
    /\ IF config.start_date.set
       THEN /\ timestamps' = FilterTimestamps(timestamps, config.start_date)
            /\ values' = FilterValues(timestamps, values, config.start_date)
       ELSE UNCHANGED <<timestamps, values>>
    /\ pc' = "check_len"
    /\ UNCHANGED <<inputs, bi_hourly, ean, mapping, value_col, timestamp_col,
                   data_start_row, parts, files, error, call>>

\* if len(timestamps) != len(values): raise ValueError
CheckLen ==
    /\ pc = "check_len"
    /\ IF Len(timestamps) # Len(values)
       THEN Fail(ValueError("length_mismatch"))
       ELSE pc' = (IF bi_hourly THEN "split" ELSE "write") /\ UNCHANGED error
    /\ UNCHANGED <<inputs, bi_hourly, ean, mapping, value_col, timestamp_col,
                   data_start_row, timestamps, values, parts, files, call>>

\* split_data_by_period(timestamps, values); pd.to_datetime(timestamps)
\* raises ValueError on a timestamp it cannot parse.  For a series that
\* mixes datetimes and numbers the outcome depends on the pandas release:
\* the numbers are read as epoch offsets, or the conversion raises.
SplitReturns ==
    /\ pc = "split"
    /\ CanConvert(timestamps)
    /\ parts' = split_data_by_period(timestamps, values)
    /\ pc' = "find_variants"
    /\ UNCHANGED <<inputs, bi_hourly, ean, mapping, value_col, timestamp_col,
                   data_start_row, timestamps, values, files, error, call>>

\* Mutant: the peak file is created before the split is known to succeed.
SplitRaises_partial ==
    /\ pc = "split"
    /\ ~CanConvert(timestamps) \/ MixedNumbers(timestamps)
    /\ Fail(ValueError(IF CanConvert(timestamps) THEN "mixed_datetimes_and_integers"
                       ELSE "unparseable_timestamp"))
    /\ files' = [files EXCEPT ![peak_output_path] = File(<<>>)]
    /\ UNCHANGED <<inputs, bi_hourly, ean, mapping, value_col, timestamp_col,
                   data_start_row, timestamps, values, parts, call>>

SplitRaises ==
    /\ pc = "split"
    /\ ~CanConvert(timestamps) \/ MixedNumbers(timestamps)
    /\ Fail(ValueError(IF CanConvert(timestamps) THEN "mixed_datetimes_and_integers"
                       ELSE "unparseable_timestamp"))
    /\ UNCHANGED <<inputs, bi_hourly, ean, mapping, value_col, timestamp_col,
                   data_start_row, timestamps, values, parts, files, call>>

\* peak_mapping = find_ean_mapping(ean, ean_mapping, is_peak=True)
\* offpeak_mapping = find_ean_mapping(ean, ean_mapping, is_peak=False)
FindVariants ==
    /\ pc = "find_variants"
    /\ LET p == find_ean_mapping(ean, ean_mapping, "True")
           o == find_ean_mapping(ean, ean_mapping, "False")
       IN
       IF ~p.ok THEN Fail(KeyErr(p.err)) /\ UNCHANGED mapping
       ELSE IF ~o.ok THEN Fail(KeyErr(o.err)) /\ UNCHANGED mapping
       ELSE /\ mapping' = [mapping EXCEPT !.peak = p.mapping, !.offpeak = o.mapping]
            /\ pc' = "write_peak"
            /\ UNCHANGED error
    /\ UNCHANGED <<inputs, bi_hourly, ean, value_col, timestamp_col, data_start_row,
                   timestamps, values, parts, files, call>>

\* if len(peak_values) > 0: write {stem}_peak{suffix}, else warn
WritePeak ==
    /\ pc = "write_peak"
    /\ IF Len(parts.peak_values) > 0
       THEN files' = [files EXCEPT ![peak_output_path] =
                File(create_output_dataframe(parts.peak_timestamps, parts.peak_values,
                                             ean, mapping.peak))]
       ELSE UNCHANGED files
    /\ pc' = "write_offpeak"
    /\ UNCHANGED <<inputs, bi_hourly, ean, mapping, value_col, timestamp_col,
                   data_start_row, timestamps, values, parts, error, call>>

\* if len(offpeak_values) > 0: write {stem}_offpeak{suffix}, else warn
WriteOffpeak ==
    /\ pc = "write_offpeak"
    /\ IF Len(parts.offpeak_values) > 0
       THEN files' = [files EXCEPT ![offpeak_output_path] =
                File(create_output_dataframe(parts.offpeak_timestamps,
                                             parts.offpeak_values, ean, mapping.offpeak))]
       ELSE UNCHANGED files
    /\ pc' = "done"
    /\ UNCHANGED <<inputs, bi_hourly, ean, mapping, value_col, timestamp_col,
                   data_start_row, timestamps, values, parts, error, call>>

\* csv_data = create_output_dataframe(...); csv_data.to_csv(output_path)
Write ==
    /\ pc = "write"
    /\ files' = [files EXCEPT ![output_path] =
            File(create_output_dataframe(timestamps, values, ean, mapping.std))]
    /\ pc' = "done"
    /\ UNCHANGED <<inputs, bi_hourly, ean, mapping, value_col, timestamp_col,
                   data_start_row, timestamps, values, parts, error, call>>

Next ==
    \/ Validate
    \/ ExtractEan
    \/ Branch
    \/ FindMapping
    \/ FindValueCol
    \/ FindTimestampCol
    \/ FindDataStart
    \/ Slice
    \/ Coerce
    \/ Filter
    \/ CheckLen
    \/ SplitReturns
    \/ SplitRaises
    \/ FindVariants
    \/ WritePeak
    \/ WriteOffpeak
    \/ Write

Spec == Init /\ [][Next]_vars

\* ------------------------------------------------------------------------
\* parse_renewgy_excel_to_csv as one call, for its callers: the outcomes of
\* converting worksheet df to out in the directory fs.  An outcome is the
\* return or the exception, and the directory it leaves.
\* ------------------------------------------------------------------------
Completed(fs) == [ok |-> TRUE, error |-> NoError, files |-> fs]
Raises(e, fs) == [ok |-> FALSE, error |-> e, files |-> fs]
If(b, x) == IF b THEN {x} ELSE {}
The(S) == CHOOSE x \in S : TRUE

\* extract_data_from_excel: the two series, or the ValueError.
Extracted(ts, vals) == [ok |-> TRUE, err |-> "", timestamps |-> ts, values |-> vals]
NotExtracted(kind) == [ok |-> FALSE, err |-> kind, timestamps |-> <<>>, values |-> <<>>]
FromStartDate(x, cfg) ==
    IF cfg.start_date.set
    THEN Extracted(FilterTimestamps(x.timestamps, cfg.start_date),
                   FilterValues(x.timestamps, x.values, cfg.start_date))
    ELSE x
CheckedLengths(x) ==
    IF Len(x.timestamps) # Len(x.values) THEN NotExtracted("length_mismatch") ELSE x
extract_data_from_excel(df, cfg, label) ==
    The({IF ~col.ok THEN NotExtracted(col.err)
         ELSE The({CheckedLengths(y) :
                 y \in {FromStartDate(x, cfg) :
                     x \in {Extracted(SliceColumn(df, start, tcol),
                                      CoerceValues(SliceColumn(df, start, col.col))) :
                               start \in {find_data_start_row(df)},
                               tcol \in {find_timestamp_column(df)}}}}) :
         col \in {find_consumption_column(df, label)}})

\* The bi-hourly branch, lines 362-400, from the extracted series x.
WriteParts(sp, id, p, o, out, fs) ==
    [q \in DOMAIN fs |->
        IF q = PeakPath(out) /\ Len(sp.peak_values) > 0
        THEN File(create_output_dataframe(sp.peak_timestamps, sp.peak_values, id,
                                          p.mapping))
        ELSE IF q = OffpeakPath(out) /\ Len(sp.offpeak_values) > 0
        THEN File(create_output_dataframe(sp.offpeak_timestamps, sp.offpeak_values, id,
                                          o.mapping))
        ELSE fs[q]]
BiHourly(x, id, table, out, fs) ==
    IF ~x.ok THEN {Raises(ValueError(x.err), fs)}
    ELSE If(~CanConvert(x.timestamps), Raises(ValueError("unparseable_timestamp"), fs))
         \cup If(CanConvert(x.timestamps) /\ MixedNumbers(x.timestamps),
                 Raises(ValueError("mixed_datetimes_and_integers"), fs))
         \cup UNION {UNION {
                 If(~p.ok, Raises(KeyErr(p.err), fs))
                 \cup If(p.ok /\ ~o.ok, Raises(KeyErr(o.err), fs))
                 \cup If(p.ok /\ o.ok, Completed(WriteParts(sp, id, p, o, out, fs))) :
                    sp \in {split_data_by_period(x.timestamps, x.values)},
                    p \in {find_ean_mapping(id, table, "True")},
                    o \in {find_ean_mapping(id, table, "False")}} :
              go \in If(CanConvert(x.timestamps), TRUE)}

\* The standard branch, lines 403-416, for the EAN id.
Standard(df, id, table, cfg, label, out, fs) ==
    UNION {IF ~m.ok THEN {Raises(KeyErr(m.err), fs)}
           ELSE {IF ~x.ok THEN Raises(ValueError(x.err), fs)
                 ELSE Completed([fs EXCEPT ![out] =
                         File(create_output_dataframe(x.timestamps, x.values, id,
                                                      m.mapping))]) :
                    x \in {extract_data_from_excel(df, cfg, label)}} :
           m \in {find_ean_mapping(id, table, "None")}}

parse_renewgy_excel_to_csv(df, table, cfg, label, out, fs) ==
    UNION {IF v # "" THEN {Raises(ValueError(v), fs)}
           ELSE UNION {IF ~e.ok THEN {Raises(ValueError(e.err), fs)}
                       ELSE IF has_peak_offpeak_variants(e.ean, table)
                       THEN UNION {BiHourly(x, e.ean, table, out, fs) :
                                      x \in {extract_data_from_excel(df, cfg, label)}}
                       ELSE Standard(df, e.ean, table, cfg, label, out, fs) :
                       e \in {extract_ean_from_excel(df, cfg)}} :
           v \in {validate_excel_structure(df, cfg)}}

\* ------------------------------------------------------------------------
\* The functions applied on their own: find_ean_mapping,
\* has_peak_offpeak_variants and is_peak_hour on arguments drawn from the
\* sets below.
\* ------------------------------------------------------------------------
\* ------------------------------------------------------------------------
\* process_multiple_files.
\* ------------------------------------------------------------------------
\* Worksheets of a directory: one with peak and offpeak rows, one with
\* offpeak rows only, one with a timestamp that does not parse, one too
\* short, one without header row.
SampleGrids ==
    {<<EanRow, HeaderRowDate, UnitRow, ProfileRow,
       DataRow(DateCell(MkTime(1, 7, 0)), NumCell(5)),
       DataRow(DateCell(MkTime(6, 12, 0)), NumCell(3))>>,
     <<EanRow, HeaderRowDate, UnitRow, ProfileRow,
       DataRow(DateCell(MkTime(6, 12, 0)), NumCell(3)),
       DataRow(DateCell(MkTime(1, 23, 59)), EmptyCell)>>,
     <<EanRow, HeaderRowDate, UnitRow, ProfileRow,
       DataRow(TextCell(<<"n/a">>), NumCell(1)),
       DataRow(DateCell(MkTime(1, 7, 0)), NumCell(5))>>,
     <<EanRow, HeaderRowDate, UnitRow, ProfileRow,
       DataRow(DateCell(MkTime(1, 7, 0)), NumCell(5))>>,
     <<EanRow, UnitRow, UnitRow, ProfileRow,
       DataRow(DateCell(MkTime(1, 7, 0)), NumCell(5)),
       DataRow(DateCell(MkTime(6, 12, 0)), NumCell(3))>>}

\* input_dir.glob(pattern): a list of distinct paths, in any order.  With
\* the default pattern the paths are files of input_dir, matched by "*.xlsx"
\* and then by "*.XLSX"; a pattern given with --pattern may reach into
\* sub-directories ("*/*.xlsx").
InputPath(parent, name, stem) == [parent |-> parent, name |-> name, stem |-> stem]
InputFile(path, df) ==
    [parent |-> path.parent, name |-> path.name, stem |-> path.stem, excel_df |-> df]
LowerPaths == {InputPath("", "X.xlsx", <<"X">>), InputPath("", "Y.xlsx", <<"Y">>)}
UpperPaths == {InputPath("", "X.XLSX", <<"X">>)}
DeepPaths == {InputPath("a", "X.xlsx", <<"X">>), InputPath("b", "X.xlsx", <<"X">>)}
Distinct(sq) == \A i, j \in 1..Len(sq) : i # j => sq[i] # sq[j]
Orders(S) == {q \in SeqsUpTo(S, Cardinality(S)) : Distinct(q)}
Listings ==
    {l \o u : l \in Orders(LowerPaths), u \in Orders(UpperPaths)} \cup Orders(DeepPaths)
Directories ==
    UNION {{[i \in 1..Len(l) |-> InputFile(l[i], g[i])] :
               g \in [1..Len(l) -> SampleGrids]} : l \in Listings}

\* results[key] = value
SetItem(d, k, v) ==
    IF \E i \in 1..Len(d) : d[i].key = k
    THEN [i \in 1..Len(d) |-> IF d[i].key = k THEN [key |-> k, value |-> v] ELSE d[i]]
    ELSE Append(d, [key |-> k, value |-> v])
SUCCESS == [status |-> "SUCCESS", message |-> NoError]
ERROR(exc) == [status |-> "ERROR", message |-> exc]

InitBatch ==
    /\ excel_df = <<>>
    /\ ean_mapping \in Mappings
    /\ config \in {ParserConfig(d) : d \in StartDates}
    /\ consumption_type = MEASURED_ACTIVE_CONSUMPTION
    /\ pc = "batch"
    /\ bi_hourly = FALSE
    /\ ean = <<>>
    /\ mapping = [std |-> NoMapping, peak |-> NoMapping, offpeak |-> NoMapping]
    /\ value_col = -1
    /\ timestamp_col = -1
    /\ data_start_row = -1
    /\ timestamps = <<>>
    /\ values = <<>>
    /\ parts = NoParts
    /\ files = [p \in Paths |-> NoFile]
    /\ error = NoError
    /\ call = NoCall
    /\ output_path = CsvPath(<<"X">>)
    /\ batch \in {[NoBatch EXCEPT !.input_files = d, !.next = 1] : d \in Directories}
    /\ suspended = NoThread

\* One turn of the loop: convert the next file and record its result.
ProcessFile ==
    /\ pc = "batch" /\ ~batch.returned
    /\ batch.next <= Len(batch.input_files)
    /\ LET input_file == batch.input_files[batch.next]
           output_file == CsvPath(input_file.stem)
       IN
       \E r \in parse_renewgy_excel_to_csv(input_file.excel_df, ean_mapping, config,
                                            consumption_type, output_file, files) :
          /\ files' = r.files
          /\ batch' = [batch EXCEPT
                !.results = SetItem(@, input_file.name,
                                    IF r.ok THEN SUCCESS ELSE ERROR(r.error)),
                !.calls = Append(@, [parent |-> input_file.parent,
                                      name |-> input_file.name]),
                !.next = @ + 1]
    /\ UNCHANGED <<excel_df, ean_mapping, config, consumption_type, pc, bi_hourly, ean,
                   mapping, value_col, timestamp_col, data_start_row, timestamps, values,
                   parts, error, call, output_path, suspended>>

\* return results
ReturnResults ==
    /\ pc = "batch" /\ ~batch.returned
    /\ batch.next > Len(batch.input_files)
    /\ batch' = [batch EXCEPT !.returned = TRUE]
    /\ UNCHANGED <<excel_df, ean_mapping, config, consumption_type, pc, bi_hourly, ean,
                   mapping, value_col, timestamp_col, data_start_row, timestamps, values,
                   parts, files, error, call, output_path, suspended>>

NextBatch ==
    \/ ProcessFile
    \/ ReturnResults

SpecBatch == InitBatch /\ [][NextBatch]_vars

ArgEans == {<<"1">>, <<"1", "2">>, <<"9">>}
ArgKeys ==
    <<(<<"1">>), PeakKey(<<"1">>), OffpeakKey(<<"1">>),
      (<<"1", "2">>), PeakKey(<<"1", "2">>), OffpeakKey(<<"1", "2">>),
      (<<"9", "9">>)>>

\* The dict holding the keys of ArgKeys at the positions in S, in order;
\* each key maps to a record naming it.
RECURSIVE DictFrom(_, _)
DictFrom(S, i) ==
    IF i > Len(ArgKeys) THEN <<>>
    ELSE Opt(i \in S, Entry(ArgKeys[i], EANMapping(ArgKeys[i], ArgKeys[i])))
         \o DictFrom(S, i + 1)
ArgMappings == {DictFrom(S, 1) : S \in SUBSET (1..Len(ArgKeys))}

ArgPeriods == {"None", "True", "False"}

ArgTimes == {MkTime(d, h, m) : d \in 1..8, h \in 0..23, m \in {0, 59}}
ArgTimestamps ==
    {DateCell(t) : t \in ArgTimes}
    \cup {TextCell(StrOfTime(t)) : t \in ArgTimes}
    \cup {TextCell(<<"n/a">>), EmptyCell}

\* Worksheets of every shape around the thresholds of ParserConfig, with the
\* EAN header cell filled or not.
Filler == TextCell(<<"x">>)
ShapedGrid(n, m, header, other) ==
    [r \in 1..n |-> [c \in 1..m |->
        IF r = header_row_default + 1 /\ c = header_col_default + 1
        THEN header ELSE other]]
ArgShapes ==
    {ShapedGrid(n, m, h, o) :
        n \in (min_rows_default - 1)..(min_rows_default + 1),
        m \in (min_cols_default - 1)..(min_cols_default + 1),
        h \in {EmptyCell, EanCell, NumCell(0)},
        o \in {EmptyCell, Filler}}

\* Worksheets with every kind of EAN header cell.
ArgEanCells ==
    {EmptyCell, EanCell, NumCell(12), DateCell(MkTime(1, 7, 0)),
     TextCell(<<"541448911004090123", "_", "ABC">>),
     TextCell(<<"5", "4">>),
     TextCell(<<"_", "A">>),
     TextCell(<<" ", "_", "A">>),
     TextCell(<<" ", "5", "4", " ", "_", "A", "_", "B">>),
     TextCell(<<"5", " ", "4", "_">>),
     TextCell(<<"5", "_", "_">>),
     TextCell(<<" ", " ">>)}
ArgEanGrids ==
    {ShapedGrid(min_rows_default, min_cols_default, h, o) :
        h \in ArgEanCells, o \in {EmptyCell, Filler}}

\* Worksheets with a header row at every position, followed or not by a
\* second one.
MEASURED_REACTIVE_CONSUMPTION == <<"MEASURED", " ", "REACTIVE CONSUMPTION">>
FillerRow == <<Filler, EmptyCell, NumCell(1)>>
ArgHeaders ==
    {HeaderRowDate,
     HeaderRowPlain,
     <<TextCell(<<"ROLE DESCRIPTION">>), TextCell(MEASURED_ACTIVE_CONSUMPTION),
       TextCell(MEASURED_ACTIVE_CONSUMPTION)>>,
     <<TextCell(<<"Role description", ":">>),
       TextCell(<<" ">> \o MEASURED_ACTIVE_CONSUMPTION \o <<" ">>),
       TextCell(MEASURED_REACTIVE_CONSUMPTION)>>,
     <<TextCell(MEASURED_REACTIVE_CONSUMPTION), TextCell(<<"Role description">>),
       TextCell(<<"MEASURED", " ", "INJECTION">>)>>,
     <<TextCell(<<"Role description">>), EmptyCell, TextCell(<<"kWh">>)>>,
     <<TextCell(<<"Role">>), TextCell(<<"description">>),
       TextCell(MEASURED_ACTIVE_CONSUMPTION)>>}
ArgRowCount == min_rows_default + 1
HeaderGrid(h, p, h2) ==
    [r \in 1..ArgRowCount |->
        IF r = p + 1 THEN h ELSE IF r = p + 2 THEN h2 ELSE FillerRow]
ArgHeaderGrids ==
    {HeaderGrid(h, p, h2) :
        h \in ArgHeaders, p \in 0..(ArgRowCount - 1),
        h2 \in ArgHeaders \cup {FillerRow}}
    \cup {[r \in 1..ArgRowCount |-> FillerRow]}
ArgTypes == {MEASURED_ACTIVE_CONSUMPTION, MEASURED_REACTIVE_CONSUMPTION}

Call(fn, arg) == [fn |-> fn, arg |-> arg, ret |-> <<>>, done |-> FALSE]

InitFn ==
    /\ excel_df = <<>>
    /\ ean_mapping = <<>>
    /\ config = ParserConfig(NoDate)
    /\ consumption_type = MEASURED_ACTIVE_CONSUMPTION
    /\ pc = "fn"
    /\ bi_hourly = FALSE
    /\ ean = <<>>
    /\ mapping = [std |-> NoMapping, peak |-> NoMapping, offpeak |-> NoMapping]
    /\ value_col = -1
    /\ timestamp_col = -1
    /\ data_start_row = -1
    /\ timestamps = <<>>
    /\ values = <<>>
    /\ parts = NoParts
    /\ files = [p \in Paths |-> NoFile]
    /\ error = NoError
    /\ output_path = CsvPath(<<"X">>)
    /\ batch = NoBatch
    /\ suspended = NoThread
    /\ call \in
          {Call("find_ean_mapping", [ean |-> e, ean_mapping |-> m, is_peak |-> p]) :
              e \in ArgEans, m \in ArgMappings, p \in ArgPeriods}
          \cup {Call("has_peak_offpeak_variants", [ean |-> e, ean_mapping |-> m]) :
              e \in ArgEans, m \in ArgMappings}
          \cup {Call("is_peak_hour", [timestamp |-> c]) : c \in ArgTimestamps}
          \cup {Call("validate_excel_structure",
                     [excel_df |-> g, config |-> ParserConfig(d)]) :
              g \in ArgShapes, d \in StartDates}
          \cup {Call("extract_ean_from_excel",
                     [excel_df |-> g, config |-> ParserConfig(NoDate)]) :
              g \in ArgEanGrids}
          \cup {Call("find_header_row", [excel_df |-> g]) : g \in ArgHeaderGrids}
          \cup {Call("find_consumption_column",
                     [excel_df |-> g, consumption_type |-> t]) :
              g \in ArgHeaderGrids, t \in ArgTypes}

Return(r) == call' = [call EXCEPT !.ret = r, !.done = TRUE]

CallFindEanMapping ==
    /\ call.fn = "find_ean_mapping" /\ ~call.done
    /\ Return(find_ean_mapping(call.arg.ean, call.arg.ean_mapping, call.arg.is_peak))
    /\ UNCHANGED <<inputs, pc, bi_hourly, ean, mapping, value_col, timestamp_col,
                   data_start_row, timestamps, values, parts, files, error>>

CallHasVariants ==
    /\ call.fn = "has_peak_offpeak_variants" /\ ~call.done
    /\ Return(has_peak_offpeak_variants(call.arg.ean, call.arg.ean_mapping))
    /\ UNCHANGED <<inputs, pc, bi_hourly, ean, mapping, value_col, timestamp_col,
                   data_start_row, timestamps, values, parts, files, error>>

CallIsPeakHour ==
    /\ call.fn = "is_peak_hour" /\ ~call.done
    /\ Return(is_peak_hour(call.arg.timestamp))
    /\ UNCHANGED <<inputs, pc, bi_hourly, ean, mapping, value_col, timestamp_col,
                   data_start_row, timestamps, values, parts, files, error>>

CallValidate ==
    /\ call.fn = "validate_excel_structure" /\ ~call.done
    /\ Return(validate_excel_structure(call.arg.excel_df, call.arg.config))
    /\ UNCHANGED <<inputs, pc, bi_hourly, ean, mapping, value_col, timestamp_col,
                   data_start_row, timestamps, values, parts, files, error>>

CallExtractEan ==
    /\ call.fn = "extract_ean_from_excel" /\ ~call.done
    /\ Return(extract_ean_from_excel(call.arg.excel_df, call.arg.config))
    /\ UNCHANGED <<inputs, pc, bi_hourly, ean, mapping, value_col, timestamp_col,
                   data_start_row, timestamps, values, parts, files, error>>

CallFindHeaderRow ==
    /\ call.fn = "find_header_row" /\ ~call.done
    /\ Return(find_header_row(call.arg.excel_df))
    /\ UNCHANGED <<inputs, pc, bi_hourly, ean, mapping, value_col, timestamp_col,
                   data_start_row, timestamps, values, parts, files, error>>

CallFindConsumptionColumn ==
    /\ call.fn = "find_consumption_column" /\ ~call.done
    /\ Return(find_consumption_column(call.arg.excel_df, call.arg.consumption_type))
    /\ UNCHANGED <<inputs, pc, bi_hourly, ean, mapping, value_col, timestamp_col,
                   data_start_row, timestamps, values, parts, files, error>>

NextFn ==
    \/ CallFindEanMapping
    \/ CallHasVariants
    \/ CallIsPeakHour
    \/ CallValidate
    \/ CallExtractEan
    \/ CallFindHeaderRow
    \/ CallFindConsumptionColumn

SpecFn == InitFn /\ [][NextFn]_vars

\* ------------------------------------------------------------------------
\* The web front end, single-file mode: _process_single_file.
\* ------------------------------------------------------------------------
\* re.search(r'\d{18}', filename): the first run of 18 digits, or "".
Is18Digits(tok) == tok \in {"541448911004090123", "541448911004090999"}
extract_ean_from_filename(filename) ==
    IF \E i \in 1..Len(filename) : Is18Digits(filename[i])
    THEN <<filename[CHOOSE i \in 1..Len(filename) :
                /\ Is18Digits(filename[i])
                /\ \A j \in 1..(i - 1) : ~Is18Digits(filename[j])]>>
    ELSE <<>>

Success == [success |-> TRUE, error |-> ""]
Failure(msg) == [success |-> FALSE, error |-> msg]

_verify_bi_hourly_output(out, fs) ==
    IF fs[PeakPath(out)].exists /\ fs[OffpeakPath(out)].exists
    THEN Success
    ELSE Failure("Fichiers de sortie manquants")

_verify_standard_output(out, fs) ==
    IF fs[out].exists THEN Success ELSE Failure("Le fichier de sortie n'a pas ete cree")

\* The uploaded worksheets: the sample worksheets for the meter
\* 541448911004090123, under a name that holds the EAN or not.
UploadEan == <<"541448911004090123">>
WithEanCell(df, c) ==
    [r \in 1..Len(df) |-> [k \in 1..Len(df[r]) |->
        IF r = header_row_default + 1 /\ k = header_col_default + 1 THEN c ELSE df[r][k]]]
Uploads ==
    {WithEanCell(g, TextCell(UploadEan \o <<"_", "ABC">>)) : g \in SampleGrids}
Sources ==
    {<<"541448911004090123", ".xlsx">>, <<"export", ".xlsx">>,
     <<"541448911004090999", "-", "541448911004090123", ".xlsx">>}

InitHttp ==
    /\ excel_df \in Uploads
    /\ ean_mapping \in MappingsFor(UploadEan)
    /\ config \in {ParserConfig(d) : d \in StartDates}
    /\ consumption_type = MEASURED_ACTIVE_CONSUMPTION
    /\ pc = "http"
    /\ bi_hourly = FALSE
    /\ ean = <<>>
    /\ mapping = [std |-> NoMapping, peak |-> NoMapping, offpeak |-> NoMapping]
    /\ value_col = -1
    /\ timestamp_col = -1
    /\ data_start_row = -1
    /\ timestamps = <<>>
    /\ values = <<>>
    /\ parts = NoParts
    /\ files = [p \in Paths |-> NoFile]
    /\ error = NoError
    /\ call \in {Call("_process_single_file",
                       [source |-> src, destination |-> CsvPath(<<"X">>)]) :
                     src \in Sources}
    /\ output_path = CsvPath(<<"X">>)
    /\ batch = NoBatch
    /\ suspended = NoThread

ProcessSingleFile ==
    /\ call.fn = "_process_single_file" /\ ~call.done
    /\ LET name_ean == extract_ean_from_filename(call.arg.source)
           is_bi_hourly == IF name_ean # <<>>
                           THEN has_peak_offpeak_variants(name_ean, ean_mapping)
                           ELSE FALSE
       IN
       \E r \in parse_renewgy_excel_to_csv(excel_df, ean_mapping, config, consumption_type,
                                            call.arg.destination, files) :
          /\ files' = r.files
          /\ Return(IF ~r.ok THEN Failure("Erreur de traitement")
                    ELSE IF is_bi_hourly
                    THEN _verify_bi_hourly_output(call.arg.destination, r.files)
                    ELSE _verify_standard_output(call.arg.destination, r.files))
    /\ UNCHANGED <<inputs, pc, bi_hourly, ean, mapping, value_col, timestamp_col,
                   data_start_row, timestamps, values, parts, error>>

NextHttp == ProcessSingleFile

SpecHttp == InitHttp /\ [][NextHttp]_vars

\* ------------------------------------------------------------------------
\* Two request threads (app.run(threaded=True)), each converting its own
\* worksheet to its own output path with the same mapping.  The variables
\* of parse_renewgy_excel_to_csv are those of the running thread; the other
\* thread waits in suspended, and a thread switch can happen between any
\* two statements.
\* ------------------------------------------------------------------------
Running ==
    [excel_df |-> excel_df, config |-> config, consumption_type |-> consumption_type,
     output_path |-> output_path, pc |-> pc, bi_hourly |-> bi_hourly, ean |-> ean,
     mapping |-> mapping, value_col |-> value_col, timestamp_col |-> timestamp_col,
     data_start_row |-> data_start_row, timestamps |-> timestamps, values |-> values,
     parts |-> parts, error |-> error]

NewThread(df, cfg, out) ==
    [excel_df |-> df, config |-> cfg, consumption_type |-> MEASURED_ACTIVE_CONSUMPTION,
     output_path |-> out, pc |-> "validate", bi_hourly |-> FALSE, ean |-> <<>>,
     mapping |-> [std |-> NoMapping, peak |-> NoMapping, offpeak |-> NoMapping],
     value_col |-> -1, timestamp_col |-> -1, data_start_row |-> -1,
     timestamps |-> <<>>, values |-> <<>>, parts |-> NoParts, error |-> NoError]

InitConc ==
    /\ excel_df \in SampleGrids
    /\ ean_mapping \in Mappings
    /\ config \in {ParserConfig(d) : d \in StartDates}
    /\ consumption_type = MEASURED_ACTIVE_CONSUMPTION
    /\ pc = "validate"
    /\ bi_hourly = FALSE
    /\ ean = <<>>
    /\ mapping = [std |-> NoMapping, peak |-> NoMapping, offpeak |-> NoMapping]
    /\ value_col = -1
    /\ timestamp_col = -1
    /\ data_start_row = -1
    /\ timestamps = <<>>
    /\ values = <<>>
    /\ parts = NoParts
    /\ files = [p \in Paths |-> NoFile]
    /\ error = NoError
    /\ call = NoCall
    /\ output_path = CsvPath(<<"X">>)
    /\ batch = NoBatch
    /\ suspended \in {NewThread(df, ParserConfig(d), CsvPath(<<"Y">>)) :
                         df \in SampleGrids, d \in StartDates}

\* Mutant: parts is a buffer the two threads share.
Switch_shared_parts ==
    /\ suspended.pc \notin {"none", "done", "failed"}
    /\ excel_df' = suspended.excel_df
    /\ config' = suspended.config
    /\ consumption_type' = suspended.consumption_type
    /\ output_path' = suspended.output_path
    /\ pc' = suspended.pc
    /\ bi_hourly' = suspended.bi_hourly
    /\ ean' = suspended.ean
    /\ mapping' = suspended.mapping
    /\ value_col' = suspended.value_col
    /\ timestamp_col' = suspended.timestamp_col
    /\ data_start_row' = suspended.data_start_row
    /\ timestamps' = suspended.timestamps
    /\ values' = suspended.values
    /\ parts' = parts
    /\ error' = suspended.error
    /\ suspended' = Running
    /\ UNCHANGED <<ean_mapping, files, call, batch>>

\* The waiting thread takes over.
Switch ==
    /\ suspended.pc \notin {"none", "done", "failed"}
    /\ excel_df' = suspended.excel_df
    /\ config' = suspended.config
    /\ consumption_type' = suspended.consumption_type
    /\ output_path' = suspended.output_path
    /\ pc' = suspended.pc
    /\ bi_hourly' = suspended.bi_hourly
    /\ ean' = suspended.ean
    /\ mapping' = suspended.mapping
    /\ value_col' = suspended.value_col
    /\ timestamp_col' = suspended.timestamp_col
    /\ data_start_row' = suspended.data_start_row
    /\ timestamps' = suspended.timestamps
    /\ values' = suspended.values
    /\ parts' = suspended.parts
    /\ error' = suspended.error
    /\ suspended' = Running
    /\ UNCHANGED <<ean_mapping, files, call, batch>>

NextConc ==
    \/ Next
    \/ Switch

SpecConc == InitConc /\ [][NextConc]_vars

\* ------------------------------------------------------------------------
\* The locators of the data region: find_data_start_row and
\* find_timestamp_column applied on their own, and conversions of
\* worksheets whose header row, profile marker, labels and date columns sit
\* at unusual places.
\* ------------------------------------------------------------------------
\* Worksheets of 0 to 8 rows with the profile marker on no row, on one row
\* or on two, in either case and inside a longer text.
ArgProfileRows ==
    {ProfileRow,
     <<EmptyCell, TextCell(<<"x", "PROFILE DESCRIPTION", ":">>), NumCell(1)>>,
     <<TextCell(<<"Profile">>), TextCell(<<"description">>), EmptyCell>>}
ProfileGrid(n, p, m1, q, m2) ==
    [r \in 1..n |->
        IF r = p + 1 THEN m1 ELSE IF r = q + 1 THEN m2 ELSE FillerRow]
ArgProfileGrids ==
    {ProfileGrid(n, p, m1, q, m2) :
        n \in 0..(DataWindow + 2), p \in -1..(DataWindow + 1),
        m1 \in ArgProfileRows, q \in {-1, DataWindow - 1, DataWindow},
        m2 \in {ProfileRow}}

\* Worksheets for find_timestamp_column.  A row of w cells from the cells
\* given by column; the columns past the width are dropped.
RowOf(w, cells) ==
    [c \in 1..w |-> IF (c - 1) \in DOMAIN cells THEN cells[c - 1] ELSE EmptyCell]
RoleCell == TextCell(<<"Role description">>)
MacCell == TextCell(MEASURED_ACTIVE_CONSUMPTION)
MrcCell == TextCell(MEASURED_REACTIVE_CONSUMPTION)
\* Header rows: the value label last; a "Date" cell before it; the value
\* label first; no active label; two "date" cells; the marker alone.
ArgStampHeaders ==
    {(0 :> RoleCell @@ 4 :> MacCell),
     (0 :> RoleCell @@ 3 :> TextCell(<<"Date">>) @@ 4 :> MacCell),
     (0 :> MacCell @@ 1 :> RoleCell @@ 3 :> MrcCell),
     (0 :> RoleCell @@ 2 :> MrcCell),
     (0 :> MacCell @@ 1 :> RoleCell @@ 2 :> TextCell(<<"DATE", " ", "(UTC)">>)
        @@ 4 :> TextCell(<<"Date">>)),
     (0 :> RoleCell)}
NoHeader == (0 :> Filler)
\* Cells of a data column: a datetime, a text that holds ':' and is no
\* date, a text that holds '-' only, a text that is a date.
ArgStampCells ==
    {DateCell(MkTime(1, 7, 0)), TextCell(<<"a", ":", "b">>),
     TextCell(<<"n", "-", "a">>), TextCell(StrOfTime(MkTime(2, 21, 59)))}
\* k data rows: column a holds cell x on its last d rows, column 1 holds
\* datetimes on every row when both is set, and the rest holds numbers.
StampData(w, k, a, x, d, both) ==
    [r \in 1..k |->
        RowOf(w, [c \in 0..4 |->
            IF c = a /\ r > k - d THEN x
            ELSE IF c = 1 /\ both THEN DateCell(MkTime(6, 12, 0))
            ELSE NumCell(c)])]
\* The rows above the data: the header on the second row and the profile
\* marker on the fourth, or the header on the first row and no marker.
StampLead(w, h, marked) ==
    IF marked
    THEN <<RowOf(w, (0 :> Filler)), RowOf(w, h), RowOf(w, (0 :> Filler)),
           RowOf(w, (0 :> TextCell(<<"Profile description">>)))>>
    ELSE <<RowOf(w, h), RowOf(w, (0 :> Filler))>>
MaxSampleRows == 5
ArgStampGrids ==
    {StampLead(w, h, marked) \o StampData(w, k, a, x, d, both) :
        w \in {1, 3, 5}, h \in ArgStampHeaders \cup {NoHeader}, marked \in BOOLEAN,
        k \in 0..MaxSampleRows, a \in {0, 2, 4}, x \in ArgStampCells,
        d \in 0..MaxSampleRows, both \in BOOLEAN}
    \cup {<<>>, <<(<<>>), (<<>>)>>}

\* Worksheets for whole conversions.  The rows above the data: the usual
\* export with and without a "Date" label; the active label on the first
\* column; no active label; the header on the fifth row and no profile
\* marker; the profile marker above the header; no header row; an EAN cell
\* without underscore.
BadEanRow == <<TextCell(<<"EAN">>), TextCell(<<"5", "4">>), EmptyCell>>
LocLayouts ==
    {<<EanRow, HeaderRowDate, UnitRow, ProfileRow>>,
     <<EanRow, HeaderRowPlain, UnitRow, ProfileRow>>,
     <<EanRow, <<MacCell, RoleCell, MrcCell>>, UnitRow, ProfileRow>>,
     <<EanRow, <<RoleCell, EmptyCell, MrcCell>>, UnitRow, ProfileRow>>,
     <<EanRow, UnitRow, BlankRow, BlankRow, HeaderRowDate>>,
     <<EanRow, UnitRow, BlankRow, BlankRow, HeaderRowPlain>>,
     <<EanRow, ProfileRow, BlankRow, HeaderRowDate>>,
     <<EanRow, UnitRow, BlankRow, ProfileRow>>,
     <<BadEanRow, HeaderRowDate, UnitRow, ProfileRow>>}
\* Data rows with the datetime on the first column, on the second, on none.
LocRowFirst == <<DateCell(MkTime(1, 7, 0)), EmptyCell, NumCell(5)>>
LocRowSecond == <<TextCell(<<"n/a">>), DateCell(MkTime(6, 12, 0)), NumCell(3)>>
LocRowNone == <<NumCell(1), TextCell(<<"x">>), NumCell(2)>>
Repeat(row, n) == [i \in 1..n |-> row]
LocData ==
    {Repeat(LocRowFirst, a) \o Repeat(LocRowSecond, b) \o Repeat(LocRowNone, c) :
        a \in 0..MaxSampleRows, b \in 0..MaxSampleRows, c \in 0..1}
LocGrids == {l \o d : l \in LocLayouts, d \in {x \in LocData : Len(x) <= MaxSampleRows}}
LocMappings ==
    {<<BareEntryOf(SheetEan)>>,
     <<PeakEntryOf(SheetEan), OffpeakEntryOf(SheetEan)>>,
     <<OtherEntry>>}

InitLoc ==
    /\ ean_mapping \in LocMappings
    /\ config = ParserConfig(NoDate)
    /\ bi_hourly = FALSE
    /\ ean = <<>>
    /\ mapping = [std |-> NoMapping, peak |-> NoMapping, offpeak |-> NoMapping]
    /\ value_col = -1
    /\ timestamp_col = -1
    /\ data_start_row = -1
    /\ timestamps = <<>>
    /\ values = <<>>
    /\ parts = NoParts
    /\ files = [p \in Paths |-> NoFile]
    /\ error = NoError
    /\ output_path = CsvPath(<<"X">>)
    /\ batch = NoBatch
    /\ suspended = NoThread
    /\ \/ /\ pc = "validate"
          /\ excel_df \in LocGrids
          /\ consumption_type \in ArgTypes
          /\ call = NoCall
       \/ /\ pc = "fn"
          /\ excel_df = <<>>
          /\ consumption_type = MEASURED_ACTIVE_CONSUMPTION
          /\ ean_mapping = <<OtherEntry>>
          /\ call \in
                {Call("find_data_start_row", [excel_df |-> g]) : g \in ArgProfileGrids}
                \cup {Call("find_timestamp_column", [excel_df |-> g]) :
                          g \in ArgStampGrids}

CallFindDataStartRow ==
    /\ call.fn = "find_data_start_row" /\ ~call.done
    /\ Return(find_data_start_row(call.arg.excel_df))
    /\ UNCHANGED <<inputs, pc, bi_hourly, ean, mapping, value_col, timestamp_col,
                   data_start_row, timestamps, values, parts, files, error>>

CallFindTimestampColumn ==
    /\ call.fn = "find_timestamp_column" /\ ~call.done
    /\ Return(find_timestamp_column(call.arg.excel_df))
    /\ UNCHANGED <<inputs, pc, bi_hourly, ean, mapping, value_col, timestamp_col,
                   data_start_row, timestamps, values, parts, files, error>>

NextLoc ==
    \/ Next
    \/ CallFindDataStartRow
    \/ CallFindTimestampColumn

SpecLoc == InitLoc /\ [][NextLoc]_vars

\* ------------------------------------------------------------------------
\* Properties.
\* ------------------------------------------------------------------------
\* Rows of the data region, and those a start date keeps.
RegionRows == {r \in 0..(NRows(excel_df) - 1) : r >= data_start_row}
AtOrAfterStart(c) ==
    /\ to_datetime(c).ok
    /\ ~to_datetime(c).nat
    /\ to_datetime(c).t >= config.start_date.t
KeptRows ==
    {r \in RegionRows :
        config.start_date.set => AtOrAfterStart(CellAt(excel_df, r, timestamp_col))}

\* The records written by the call, over all output files.
WrittenPaths == {p \in Paths : files[p].exists}
RecordsOf(p) == {[path |-> p, i |-> i] : i \in 1..Len(files[p].rows)}
OutputRecords == UNION {RecordsOf(p) : p \in WrittenPaths}
Rec(o) == files[o.path].rows[o.i]

\* A value cell that is empty or holds no number.
NotNumeric(c) == c.tag = "Empty" \/ (c.tag = "Text" /\ ~IsNumStr(c.s))

\* C1: row-count preservation.  When the conversion has completed, the
\* output holds exactly one record per row of the data region from the
\* located data-start row to the end of the grid (per row that passes the
\* start-date filter when one is set), and a row whose value cell is empty
\* or not numeric has its record, with a missing value.
C1_RowCountPreserved ==
    pc = "done" =>
        /\ Cardinality(OutputRecords) = Cardinality(KeptRows)
        /\ \A r \in KeptRows :
              /\ Cardinality({o \in OutputRecords : Rec(o).value.src = r}) = 1
              /\ \A o \in OutputRecords :
                    (Rec(o).value.src = r /\ NotNumeric(CellAt(excel_df, r, value_col)))
                    => Rec(o).value.v.nan

C1_Witness ==
    /\ pc = "done"
    /\ Cardinality(KeptRows) >= 2
    /\ \E o \in OutputRecords : Rec(o).value.v.nan
    /\ \E r \in KeptRows : CellAt(excel_df, r, value_col) = TextCell(<<"abc">>)
    /\ \E r \in KeptRows : CellAt(excel_df, r, value_col) = EmptyCell

\* C2: alignment.  In every state of the pipeline the timestamp series and
\* the value series have the same length and the same source row at each
\* position, each element is the cell of that row in the resolved column,
\* and the same holds of the peak and offpeak parts and of every record
\* written.
AlignedPair(ts, vals) ==
    /\ Len(ts) = Len(vals)
    /\ \A i \in 1..Len(ts) :
          /\ ts[i].src = vals[i].src
          /\ ts[i].c = CellAt(excel_df, ts[i].src, timestamp_col)
Coerced == pc \in {"filter", "check_len", "split", "find_variants", "write_peak",
                   "write_offpeak", "write", "done"}
C2_Aligned ==
    /\ AlignedPair(timestamps, values)
    /\ AlignedPair(parts.peak_timestamps, parts.peak_values)
    /\ AlignedPair(parts.offpeak_timestamps, parts.offpeak_values)
    /\ Coerced =>
          \A i \in 1..Len(values) :
              values[i].v = to_numeric(CellAt(excel_df, values[i].src, value_col))
    /\ \A o \in OutputRecords :
          /\ Rec(o).date.src = Rec(o).value.src
          /\ Rec(o).date.c = CellAt(excel_df, Rec(o).date.src, timestamp_col)
          /\ Rec(o).value.v = to_numeric(CellAt(excel_df, Rec(o).value.src, value_col))

C2_Witness ==
    /\ pc = "done"
    /\ bi_hourly
    /\ config.start_date.set
    /\ Len(timestamps) >= 1
    /\ Len(timestamps) < Cardinality(RegionRows)
    /\ Len(parts.peak_values) >= 1

\* The keys of a mapping dict.
KeySet(m) == {m[i].key : i \in 1..Len(m)}
RecordAt(m, k) == (CHOOSE e \in Range(m) : e.key = k).mapping
Resolved == call.fn = "find_ean_mapping" /\ call.done

\* C3: with a period given, find_ean_mapping returns the record under the
\* exact key {ean}_{period} when that key exists, else the record under the
\* bare ean when that exists, else it fails; it never returns the record of
\* the other period's variant.
C3_PeriodResolution ==
    (Resolved /\ call.arg.is_peak # "None") =>
        LET m == call.arg.ean_mapping
            id == call.arg.ean
            wanted == id \o (IF call.arg.is_peak = "True" THEN <<"_peak">> ELSE <<"_offpeak">>)
            other == id \o (IF call.arg.is_peak = "True" THEN <<"_offpeak">> ELSE <<"_peak">>)
        IN
        /\ wanted \in KeySet(m) =>
              call.ret.ok /\ call.ret.key = wanted /\ call.ret.mapping = RecordAt(m, wanted)
        /\ (wanted \notin KeySet(m) /\ id \in KeySet(m)) =>
              call.ret.ok /\ call.ret.key = id /\ call.ret.mapping = RecordAt(m, id)
        /\ (wanted \notin KeySet(m) /\ id \notin KeySet(m)) => ~call.ret.ok
        /\ call.ret.ok => call.ret.key # other
        /\ (call.ret.ok /\ other \in KeySet(m)) => call.ret.mapping # RecordAt(m, other)

C3_Witness ==
    /\ Resolved
    /\ call.arg.is_peak = "True"
    /\ call.arg.ean = <<"1">>
    /\ KeySet(call.arg.ean_mapping) = {<<"1">>, <<"1", "_offpeak">>, <<"1", "2", "_peak">>}
    /\ call.ret.ok
    /\ call.ret.key = <<"1">>

\* C4: with no period, find_ean_mapping returns the record under the bare
\* ean when present; when the bare key is absent and a peak or offpeak
\* variant exists it fails with the "has peak/offpeak variants but no period
\* specified" error and returns neither variant's record.
C4_NoPeriodResolution ==
    (Resolved /\ call.arg.is_peak = "None") =>
        LET m == call.arg.ean_mapping
            id == call.arg.ean
            variants == {id \o <<"_peak">>, id \o <<"_offpeak">>}
        IN
        /\ id \in KeySet(m) =>
              call.ret.ok /\ call.ret.key = id /\ call.ret.mapping = RecordAt(m, id)
        /\ (id \notin KeySet(m) /\ variants \cap KeySet(m) # {}) =>
              ~call.ret.ok /\ call.ret.err = "variants_no_period"
        /\ call.ret.ok => call.ret.key \notin variants

C4_Witness ==
    /\ Resolved
    /\ call.arg.is_peak = "None"
    /\ call.arg.ean = <<"1">>
    /\ KeySet(call.arg.ean_mapping) = {<<"1", "_peak">>, <<"1", "2">>}
    /\ ~call.ret.ok
    /\ call.ret.err = "variants_no_period"

\* C5: has_peak_offpeak_variants is true exactly when both {ean}_peak and
\* {ean}_offpeak are keys of the mapping; one variant alone, or the bare key,
\* does not make it true.
C5_DualTariffIff ==
    (call.fn = "has_peak_offpeak_variants" /\ call.done) =>
        (call.ret <=> {call.arg.ean \o <<"_peak">>, call.arg.ean \o <<"_offpeak">>}
                          \subseteq KeySet(call.arg.ean_mapping))

C5_Witness ==
    /\ call.fn = "has_peak_offpeak_variants"
    /\ call.done
    /\ call.arg.ean = <<"1">>
    /\ KeySet(call.arg.ean_mapping) = {<<"1">>, <<"1", "_offpeak">>, <<"1", "2", "_peak">>}
    /\ call.ret = FALSE

\* C6: is_peak_hour of a timestamp on weekday w (Monday = 0) at hour h is
\* peak exactly when w < 5 and 7 <= h < 22; Monday 06:59 is offpeak, Monday
\* 07:00 peak, Monday 21:59 peak, Monday 22:00 offpeak, Saturday 12:00
\* offpeak.  2024-01-01 is a Monday, 2024-01-06 a Saturday.
Classified(c, peak) ==
    (call.fn = "is_peak_hour" /\ call.done /\ call.arg.timestamp = c) =>
        (~call.ret.raised /\ call.ret.peak = peak)
C6_PeakWindow ==
    /\ \A d \in 1..8, h \in 0..23, m \in {0, 59} :
          /\ Classified(DateCell((d - 1) * 1440 + h * 60 + m),
                        (d - 1) % 7 < 5 /\ 7 <= h /\ h < 22)
          /\ Classified(TextCell(<<"2024", "-", "1", "-", ToString(d), " ",
                                   ToString(h), ":", ToString(m)>>),
                        (d - 1) % 7 < 5 /\ 7 <= h /\ h < 22)
    /\ Classified(DateCell(MkTime(1, 6, 59)), FALSE)
    /\ Classified(DateCell(MkTime(1, 7, 0)), TRUE)
    /\ Classified(DateCell(MkTime(1, 21, 59)), TRUE)
    /\ Classified(DateCell(MkTime(1, 22, 0)), FALSE)
    /\ Classified(DateCell(MkTime(6, 12, 0)), FALSE)

C6_Witness ==
    /\ call.fn = "is_peak_hour"
    /\ call.done
    /\ call.arg.timestamp = DateCell(MkTime(1, 22, 0))
    /\ ~call.ret.raised
    /\ ~call.ret.peak

\* The split has completed for a bi-hourly EAN.
SplitDone == pc \in {"find_variants", "write_peak", "write_offpeak", "done"} /\ bi_hourly

\* The point at position i of the extracted series.
Point(ts, vals, i) == [date |-> ts[i], value |-> vals[i]]
PointsOf(ts, vals) == {Point(ts, vals, i) : i \in 1..Len(ts)}
Increasing(ts) == \A i, j \in 1..Len(ts) : i < j => ts[i].src < ts[j].src

\* The period of a timestamp cell of the series: peak when it denotes a
\* Monday-to-Friday time with 7 <= hour < 22.
IsPeakCell(c) ==
    /\ to_datetime(c).ok
    /\ ~to_datetime(c).nat
    /\ (to_datetime(c).t \div 1440) % 7 < 5
    /\ 7 <= (to_datetime(c).t \div 60) % 24
    /\ (to_datetime(c).t \div 60) % 24 < 22

\* C7: split_data_by_period partitions the series: every point of the
\* extracted series is in exactly one of the peak and offpeak outputs, the
\* one of its timestamp's period; the output lengths sum to the input
\* length; each output keeps timestamp and value of a point together; and
\* each output is in source order.
C7_ExactPartition ==
    SplitDone =>
        LET peak == PointsOf(parts.peak_timestamps, parts.peak_values)
            offpeak == PointsOf(parts.offpeak_timestamps, parts.offpeak_values)
        IN
        /\ Len(parts.peak_timestamps) = Len(parts.peak_values)
        /\ Len(parts.offpeak_timestamps) = Len(parts.offpeak_values)
        /\ Len(parts.peak_values) + Len(parts.offpeak_values) = Len(timestamps)
        /\ Cardinality(peak) = Len(parts.peak_values)
        /\ Cardinality(offpeak) = Len(parts.offpeak_values)
        /\ \A i \in 1..Len(timestamps) :
              LET pt == Point(timestamps, values, i) IN
              IF IsPeakCell(timestamps[i].c)
              THEN pt \in peak /\ pt \notin offpeak
              ELSE pt \in offpeak /\ pt \notin peak
        /\ Increasing(parts.peak_timestamps)
        /\ Increasing(parts.offpeak_timestamps)

C7_Witness ==
    /\ SplitDone
    /\ Len(parts.peak_values) >= 1
    /\ Len(parts.offpeak_values) >= 1
    /\ Len(timestamps) = MaxDataRows

\* C8: the split is total.  Whenever the split of an extracted series is
\* reached it completes, with output lengths summing to the input length,
\* whatever timestamps (datetimes or unparseable strings) the series holds.
C8_SplitTotal ==
    [][(pc = "split" /\ ~MixedNumbers(timestamps)) =>
          /\ pc' = "find_variants"
          /\ Len(parts'.peak_values) + Len(parts'.offpeak_values) = Len(timestamps)]_vars

\* C9: for an EAN with both variants, a completed conversion to X.csv has
\* written X_peak.csv with the peak part and X_offpeak.csv with the offpeak
\* part and has not written X.csv; an empty part only leaves its own file
\* uncreated, and the conversion does not fail once the split has succeeded.
DatesOf(rows) == [i \in 1..Len(rows) |-> rows[i].date]
ValuesOf(rows) == [i \in 1..Len(rows) |-> rows[i].value]
XCsv == [stem |-> <<"X">>, suffix |-> ".csv"]
XPeakCsv == [stem |-> <<"X", "_peak">>, suffix |-> ".csv"]
XOffpeakCsv == [stem |-> <<"X", "_offpeak">>, suffix |-> ".csv"]
Written(p) == p \in DOMAIN files /\ files[p].exists
C9_DualTariffFiles ==
    /\ (pc = "done" /\ {PeakKey(ean), OffpeakKey(ean)} \subseteq KeySet(ean_mapping)) =>
          /\ ~Written(XCsv)
          /\ Written(XPeakCsv) <=> Len(parts.peak_values) > 0
          /\ Written(XOffpeakCsv) <=> Len(parts.offpeak_values) > 0
          /\ Written(XPeakCsv) =>
                /\ DatesOf(files[XPeakCsv].rows) = parts.peak_timestamps
                /\ ValuesOf(files[XPeakCsv].rows) = parts.peak_values
                /\ \A i \in 1..Len(files[XPeakCsv].rows) :
                      files[XPeakCsv].rows[i].source_id = "src_peak"
          /\ Written(XOffpeakCsv) =>
                /\ DatesOf(files[XOffpeakCsv].rows) = parts.offpeak_timestamps
                /\ ValuesOf(files[XOffpeakCsv].rows) = parts.offpeak_values
                /\ \A i \in 1..Len(files[XOffpeakCsv].rows) :
                      files[XOffpeakCsv].rows[i].source_id = "src_offpeak"
    /\ (pc = "failed" /\ bi_hourly) => parts = NoParts /\ WrittenPaths = {}

C9_Witness ==
    /\ pc = "done"
    /\ bi_hourly
    /\ Len(parts.peak_values) = 0
    /\ Len(parts.offpeak_values) > 0
    /\ ~Written(XPeakCsv)
    /\ Written(XOffpeakCsv)

\* C10: with a start date, a row of the data region is kept exactly when
\* its timestamp parses to a date at or after the start date (a row at the
\* start date is kept, a row one minute before and a row with an unparseable
\* timestamp are dropped); timestamps and values keep the same rows, in
\* source order.
Filtered == pc \in {"check_len", "split", "find_variants", "write_peak",
                    "write_offpeak", "write", "done"}
SrcsOf(series) == {series[i].src : i \in 1..Len(series)}
ParsedTime(c) ==
    CASE c.tag = "DateTime" -> c.n
      [] c.tag = "Text" /\ IsTimeStr(c.s) -> TimeOfStr(c.s)
      [] c.tag = "Number" -> EpochT
      [] OTHER -> -1
Parses(c) == c.tag \in {"DateTime", "Number"} \/ (c.tag = "Text" /\ IsTimeStr(c.s))
C10_StartDateFilter ==
    (Filtered /\ config.start_date.set) =>
        LET keep == {r \in RegionRows :
                        /\ Parses(CellAt(excel_df, r, timestamp_col))
                        /\ ParsedTime(CellAt(excel_df, r, timestamp_col))
                               >= config.start_date.t}
        IN
        /\ SrcsOf(timestamps) = keep
        /\ SrcsOf(values) = keep
        /\ Len(timestamps) = Cardinality(keep)
        /\ Len(values) = Cardinality(keep)
        /\ Increasing(timestamps)
        /\ Increasing(values)

C10_Witness ==
    /\ Filtered
    /\ config.start_date.set
    /\ \E i \in 1..Len(timestamps) : timestamps[i].c = DateCell(config.start_date.t)
    /\ \E r \in RegionRows :
          /\ CellAt(excel_df, r, timestamp_col) = DateCell(config.start_date.t - 1)
          /\ r \notin SrcsOf(timestamps)

\* The stage a statement of the conversion belongs to.
StageOf(p) ==
    CASE p = "validate" -> 1
      [] p = "extract_ean" -> 2
      [] p \in {"branch", "find_mapping"} -> 3
      [] p \in {"find_value_col", "find_timestamp_col", "find_data_start"} -> 4
      [] p \in {"slice", "coerce", "filter", "check_len"} -> 5
      [] p = "split" -> 6
      [] p \in {"find_variants", "write_peak", "write_offpeak", "write"} -> 7
      [] OTHER -> 8
Located == StageOf(pc) \in 4..7 \/ pc = "done"
HasRecord(id, m) ==
    id \in KeySet(m) \/ {id \o <<"_peak">>, id \o <<"_offpeak">>} \subseteq KeySet(m)
NothingLocated ==
    /\ value_col = -1 /\ timestamp_col = -1 /\ data_start_row = -1
    /\ timestamps = <<>> /\ values = <<>>

\* C11: the stages run in the order validation, identifier extraction,
\* mapping existence check, column and data-row location, series
\* extraction, period split (bi-hourly only), output assembly; a valid grid
\* whose identifier has no mapping record fails with a mapping error before
\* any column location or series extraction.
C11_StageOrder ==
    /\ [](Located => HasRecord(ean, ean_mapping))
    /\ []((pc = "failed" /\ ean # <<>> /\ ~HasRecord(ean, ean_mapping)) =>
              (error.type = "KeyError" /\ NothingLocated))
    /\ []((pc = "failed" /\ error.type = "KeyError") => NothingLocated)
    /\ [][pc' # "failed" =>
              /\ StageOf(pc) <= StageOf(pc')
              /\ StageOf(pc') <= StageOf(pc) + 1
                    \/ (StageOf(pc) = 5 /\ StageOf(pc') = 7 /\ ~bi_hourly)
              /\ StageOf(pc') = 6 => bi_hourly]_vars

C11_Witness ==
    /\ pc = "failed"
    /\ error.type = "KeyError"
    /\ validate_excel_structure(excel_df, config) = ""
    /\ ean = <<"5", "4">>
    /\ PeakKey(ean) \in KeySet(ean_mapping)
    /\ NothingLocated

Validated == call.fn = "validate_excel_structure" /\ call.done

\* C14: the validator tests rows >= min_rows, then columns >= min_cols, then
\* that the EAN header cell is filled; it fails on the first test that does
\* not hold, naming it (too few rows and too few columns: the row failure),
\* and accepts exactly when the three hold.
C14_ValidationOrder ==
    Validated =>
        LET g == call.arg.excel_df
            cfg == call.arg.config
            rows_ok == Len(g) >= cfg.min_rows
            cols_ok == Len(g[1]) >= cfg.min_cols
            cell_ok == g[cfg.header_row + 1][cfg.header_col + 1].tag # "Empty"
        IN
        /\ call.ret = "" <=> (rows_ok /\ cols_ok /\ cell_ok)
        /\ ~rows_ok => call.ret = "insufficient_rows"
        /\ (rows_ok /\ ~cols_ok) => call.ret = "insufficient_cols"
        /\ (rows_ok /\ cols_ok /\ ~cell_ok) => call.ret = "header_cell_empty"

C14_Witness ==
    /\ Validated
    /\ Len(call.arg.excel_df) < min_rows_default
    /\ Len(call.arg.excel_df[1]) < min_cols_default
    /\ call.arg.excel_df[1][2] = EmptyCell
    /\ call.ret = "insufficient_rows"

EanExtracted == call.fn = "extract_ean_from_excel" /\ call.done
Blanks(n) == [i \in 1..n |-> " "]

\* C15: the identifier is the text of the EAN header cell before its first
\* underscore, trimmed; the extraction fails exactly when the cell is empty,
\* has no underscore, or has only blanks before the first underscore; a
\* returned identifier is not empty and has no underscore.
C15_Identifier ==
    EanExtracted =>
        LET cell == call.arg.excel_df[header_row_default + 1][header_col_default + 1]
            text == StrOf(cell)
            us == {i \in 1..Len(text) : text[i] = "_"}
            first == CHOOSE i \in us : \A j \in us : i <= j
            before == SubSeq(text, 1, first - 1)
            fails == cell.tag = "Empty" \/ us = {} \/ before = Blanks(Len(before))
            id == call.ret.ean
        IN
        /\ call.ret.ok <=> ~fails
        /\ call.ret.ok =>
              /\ id # <<>>
              /\ "_" \notin Range(id)
              /\ Head(id) # " " /\ id[Len(id)] # " "
              /\ \E a, b \in 0..Len(before) : before = Blanks(a) \o id \o Blanks(b)
        /\ cell = TextCell(<<"541448911004090123", "_", "ABC">>) =>
              (call.ret.ok /\ id = <<"541448911004090123">>)

C15_Witness ==
    /\ EanExtracted
    /\ call.arg.excel_df[1][2] = TextCell(<<" ", "5", "4", " ", "_", "A", "_", "B">>)
    /\ call.ret.ok
    /\ call.ret.ean = <<"5", "4">>

\* The positions of the table whose key starts with the identifier.
PrefixedAt(m, id) ==
    {i \in 1..Len(m) : Len(m[i].key) >= Len(id) /\ SubSeq(m[i].key, 1, Len(id)) = id}
NthOf(S, j) == CHOOSE i \in S : Cardinality({k \in S : k < i}) = j - 1

\* C16: when neither the identifier nor one of its variants is a key of the
\* table, the error lists every key that starts with the identifier, in
\* table order, when there is one, and otherwise the first five keys of the
\* table (all of them when there are fewer).
C16_Diagnostics ==
    Resolved =>
        LET id == call.arg.ean
            m == call.arg.ean_mapping
            absent == {id, id \o <<"_peak">>, id \o <<"_offpeak">>} \cap KeySet(m) = {}
            pre == PrefixedAt(m, id)
            listed == call.ret.keys
        IN
        absent =>
            /\ ~call.ret.ok
            /\ pre # {} =>
                  /\ Len(listed) = Cardinality(pre)
                  /\ \A j \in 1..Len(listed) : listed[j] = m[NthOf(pre, j)].key
            /\ pre = {} =>
                  /\ Len(listed) = (IF Len(m) < 5 THEN Len(m) ELSE 5)
                  /\ \A j \in 1..Len(listed) : listed[j] = m[j].key

C16_Witness ==
    /\ Resolved
    /\ call.arg.ean = <<"1">>
    /\ <<"9", "9">> \in KeySet(call.arg.ean_mapping)
    /\ ~call.ret.ok
    /\ call.ret.keys = <<(<<"1", "2">>), (<<"1", "2", "_offpeak">>)>>

ColumnResolved == call.fn = "find_consumption_column" /\ call.done
HeaderLocated == call.fn = "find_header_row" /\ call.done

\* The rows of the search window that hold the header marker in any case,
\* and the first of them.
MarkerCell(c) ==
    /\ c.tag = "Text"
    /\ Range(c.s) \cap {"Role description", "ROLE DESCRIPTION", "role description"} # {}
MarkerRows(g) ==
    {r \in 0..(Len(g) - 1) : r < 5 /\ \E c \in 1..Len(g[r + 1]) : MarkerCell(g[r + 1][c])}
FirstMarkerRow(g) == CHOOSE r \in MarkerRows(g) : \A q \in MarkerRows(g) : r <= q
LabelledAt(row, label) ==
    {c \in 0..(Len(row) - 1) : row[c + 1].tag = "Text" /\ Strip(row[c + 1].s) = label}
MeasuredAt(row) ==
    {c \in 0..(Len(row) - 1) :
        /\ row[c + 1].tag = "Text"
        /\ Strip(row[c + 1].s) # <<>>
        /\ Head(Strip(row[c + 1].s)) = "MEASURED"}

\* C19: the value column is the leftmost cell of the located header row
\* whose trimmed text is the requested label; when no cell of that row
\* matches, the resolution fails and lists the labels of the row that start
\* with "MEASURED"; no column is guessed.
C19_ValueColumn ==
    (ColumnResolved /\ MarkerRows(call.arg.excel_df) # {}) =>
        LET row == call.arg.excel_df[FirstMarkerRow(call.arg.excel_df) + 1]
            hits == LabelledAt(row, call.arg.consumption_type)
            shown == MeasuredAt(row)
        IN
        /\ call.ret.ok <=> hits # {}
        /\ call.ret.ok => (call.ret.col \in hits /\ \A c \in hits : call.ret.col <= c)
        /\ ~call.ret.ok =>
              /\ call.ret.err = "type_not_found"
              /\ Len(call.ret.types) = Cardinality(shown)
              /\ \A j \in 1..Len(call.ret.types) :
                    call.ret.types[j] = Strip(row[NthOf(shown, j) + 1].s)

C19_Witness ==
    /\ ColumnResolved
    /\ MarkerRows(call.arg.excel_df) = {3, 4}
    /\ LabelledAt(call.arg.excel_df[4], call.arg.consumption_type) = {1, 2}
    /\ call.ret.ok
    /\ call.ret.col = 1

\* C20: the header row is the first of the first 5 rows of the grid with a
\* cell containing "role description" in any case; the location fails with
\* header-not-found exactly when the window has no such row, so a marker at
\* row index 5 or later is never found.
C20_HeaderWindow ==
    /\ HeaderLocated =>
          /\ call.ret = (IF MarkerRows(call.arg.excel_df) = {} THEN -1
                         ELSE FirstMarkerRow(call.arg.excel_df))
          /\ call.ret < 5
    /\ ColumnResolved =>
          (call.ret.err = "header_not_found" <=> MarkerRows(call.arg.excel_df) = {})

C20_Witness ==
    /\ HeaderLocated
    /\ \E c \in 1..3 : MarkerCell(call.arg.excel_df[6][c])
    /\ \E c \in 1..3 : MarkerCell(call.arg.excel_df[7][c])
    /\ call.ret = -1

\* The key of the table a written file takes its record from.
KeyFor(p, id) ==
    IF p = XPeakCsv THEN id \o <<"_peak">>
    ELSE IF p = XOffpeakCsv THEN id \o <<"_offpeak">>
    ELSE id

\* C17: every output record has the identifier of the sheet as meternumber,
\* the source_id and variable_id of the record resolved for its file (the
\* one under {ean}_peak in the peak file and under {ean}_offpeak in the
\* offpeak file, even when the bare key exists), and empty strings in the
\* four reserved fields.
C17_RecordConstants ==
    \A o \in OutputRecords :
        LET k == KeyFor(o.path, <<"5", "4">>) IN
        /\ Rec(o).meternumber = <<"5", "4">>
        /\ k \in KeySet(ean_mapping)
        /\ Rec(o).source_id = RecordAt(ean_mapping, k).source_id
        /\ Rec(o).variable_id = RecordAt(ean_mapping, k).variable_id
        /\ Rec(o).source_serialnumber = ""
        /\ Rec(o).source_ean = ""
        /\ Rec(o).source_name = ""
        /\ Rec(o).mapping_config = ""

C17_Witness ==
    /\ pc = "done"
    /\ <<"5", "4">> \in KeySet(ean_mapping)
    /\ Written(XPeakCsv) /\ Written(XOffpeakCsv)
    /\ files[XPeakCsv].rows[1].variable_id = "var_peak"
    /\ files[XOffpeakCsv].rows[1].source_id = "src_offpeak"

EmptyDir == [q \in Paths |-> NoFile]
EntriesFor(f) == {i \in 1..Len(batch.results) : batch.results[i].key = f.name}
CallsFor(f) ==
    {i \in 1..Len(batch.calls) : batch.calls[i] = [parent |-> f.parent, name |-> f.name]}
\* The status of converting the file on its own.
AloneStatus(f) ==
    {IF r.ok THEN SUCCESS ELSE ERROR(r.error) :
        r \in parse_renewgy_excel_to_csv(f.excel_df, ean_mapping, config, consumption_type,
                                         CsvPath(f.stem), EmptyDir)}

\* C12: in a batch every file found is converted exactly once and gets
\* exactly one result entry, "SUCCESS" when its conversion completed and
\* "ERROR: <message>" with the message of its own failure otherwise; a
\* failing file stops no later file and changes no other file's result.
C12_BatchIsolation ==
    batch.returned =>
        /\ Len(batch.results) = Len(batch.input_files)
        /\ Len(batch.calls) = Len(batch.input_files)
        /\ \A i \in 1..Len(batch.input_files) :
              LET f == batch.input_files[i] IN
              /\ Cardinality(CallsFor(f)) = 1
              /\ Cardinality(EntriesFor(f)) = 1
              /\ \A j \in EntriesFor(f) : batch.results[j].value \in AloneStatus(f)

Answered == call.fn = "_process_single_file" /\ call.done
ConversionCompletes ==
    \E r \in parse_renewgy_excel_to_csv(excel_df, ean_mapping, config, consumption_type,
                                        call.arg.destination, EmptyDir) : r.ok

\* C13: the single-file web front end answers success exactly when the
\* conversion completed and an error exactly when it failed; a completed
\* conversion, bi-hourly with an empty peak or offpeak part included, is
\* never answered as an error.
C13_FrontEndStatus ==
    Answered => (call.ret.success <=> ConversionCompletes)

Threads == {Running, suspended}
Finished(t) == t.pc \in {"done", "failed"}
Outcome(t, r) == r.ok = (t.pc = "done") /\ r.error = t.error
Arguments(t) == <<t.output_path, t.excel_df, t.config, t.consumption_type>>

\* C18: two conversions of independent worksheets with the same mapping and
\* distinct output paths, interleaved in any way, end with the statuses and
\* the output files of one conversion run after the other; no statement
\* changes the mapping or the configuration of a conversion.
C18_Interleaving ==
    /\ [](\A a, b \in Threads :
            (a.output_path # b.output_path /\ Finished(a) /\ Finished(b)) =>
                \E ra \in parse_renewgy_excel_to_csv(a.excel_df, ean_mapping, a.config,
                              a.consumption_type, a.output_path, EmptyDir) :
                   \E rb \in parse_renewgy_excel_to_csv(b.excel_df, ean_mapping, b.config,
                                 b.consumption_type, b.output_path, ra.files) :
                      /\ Outcome(a, ra)
                      /\ Outcome(b, rb)
                      /\ files = rb.files)
    /\ [][/\ ean_mapping' = ean_mapping
          /\ {Arguments(t) : t \in Threads}' = {Arguments(t) : t \in Threads}]_vars

C18_Witness ==
    /\ pc = "done" /\ suspended.pc = "failed"
    /\ suspended.error.type = "ValueError"
    /\ suspended.values # <<>>
    /\ output_path = CsvPath(<<"X">>)
    /\ Written(XPeakCsv) /\ Written(XOffpeakCsv)
    /\ \A st \in {<<"Y">>, <<"Y", "_peak">>, <<"Y", "_offpeak">>} : ~Written(CsvPath(st))

DataStartLocated == call.fn = "find_data_start_row" /\ call.done

\* The rows among the first 6 that hold the profile marker in any case.
ProfileCell(c) ==
    /\ c.tag = "Text"
    /\ Range(c.s) \cap
          {"Profile description", "PROFILE DESCRIPTION", "profile description"} # {}
ProfileRows(g) ==
    {r \in 0..(Len(g) - 1) : r < 6 /\ \E c \in 1..Len(g[r + 1]) : ProfileCell(g[r + 1][c])}

TimestampLocated == call.fn = "find_timestamp_column" /\ call.done

\* The cells of a row labelled as a date, in any case.
DateLabelled(row) ==
    {c \in 0..(Len(row) - 1) :
        /\ row[c + 1].tag = "Text"
        /\ Range(row[c + 1].s) \cap {"Date", "DATE", "date"} # {}}
HeaderDates(g) ==
    IF MarkerRows(g) = {} THEN {} ELSE DateLabelled(g[FirstMarkerRow(g) + 1])
\* The rows sampled from the data-start row, n rows at most.
SampledRows(g, n) == SampleRows(g, find_data_start_row(g), n)
\* The columns the content heuristic accepts: 2 loosely date-like cells of
\* 3 without a header row, 3 strictly date-like cells of 5 with one.
HeuristicHits(g) ==
    {c \in 0..(NCols(g) - 1) :
        /\ c < 4
        /\ IF MarkerRows(g) = {}
           THEN Cardinality({r \in SampledRows(g, 3) :
                                DateLikeLoose(CellAt(g, r, c))}) >= 2
           ELSE Cardinality({r \in SampledRows(g, 5) :
                                DateLikeStrict(CellAt(g, r, c))}) >= 3}
\* The column left of the active-consumption column, when there is one.
LeftOfActive(g) ==
    {c \in 0..(NCols(g) - 1) :
        /\ MarkerRows(g) # {}
        /\ LabelledAt(g[FirstMarkerRow(g) + 1], MEASURED_ACTIVE_CONSUMPTION) # {}
        /\ \A d \in LabelledAt(g[FirstMarkerRow(g) + 1], MEASURED_ACTIVE_CONSUMPTION) :
              c + 1 <= d
        /\ c + 1 \in LabelledAt(g[FirstMarkerRow(g) + 1], MEASURED_ACTIVE_CONSUMPTION)}
Leftmost(cols) == CHOOSE c \in cols : \A d \in cols : c <= d

ColumnsLocated == pc # "fn" /\ value_col >= 0 /\ timestamp_col >= 0

\* C23: when the header row has no "date" cell and the content heuristic
\* accepts no column, and the value column resolved for the label of the
\* caller is at index c > 0, the timestamp column is c - 1, whatever the
\* label.
C23_LeftOfValue ==
    (/\ ColumnsLocated
     /\ HeaderDates(excel_df) = {}
     /\ HeuristicHits(excel_df) = {}
     /\ value_col > 0)
        => timestamp_col = value_col - 1

\* The columns among the first 4 in which the date-like cells are a
\* majority of the sampled rows that exist.
DateLikeRows(g, c, n) ==
    {r \in SampledRows(g, n) :
        IF MarkerRows(g) = {} THEN DateLikeLoose(CellAt(g, r, c))
        ELSE DateLikeStrict(CellAt(g, r, c))}
MajorityHits(g) ==
    LET n == IF MarkerRows(g) = {} THEN 3 ELSE 5 IN
    {c \in 0..(NCols(g) - 1) :
        /\ c < 4
        /\ 2 * Cardinality(DateLikeRows(g, c, n)) > Cardinality(SampledRows(g, n))}

\* C24: when the content heuristic decides, the column returned is the
\* leftmost of the first 4 columns in which a majority of the sampled cells
\* is date-like, the sample being the rows that exist from the data-start
\* row on (3 at most without a header row, 5 at most with one); a column
\* without such a majority is not accepted.
C24_Majority ==
    (TimestampLocated /\ HeaderDates(call.arg.excel_df) = {}) =>
        LET g == call.arg.excel_df
            hits == MajorityHits(g)
        IN
        /\ hits # {} => call.ret = Leftmost(hits)
        /\ hits = {} => call.ret \in LeftOfActive(g) \cup {0}

C26_NoPartialOutput ==
    /\ [](pc = "failed" => \A p \in Paths : files[p] = NoFile)
    /\ [][files' # files =>
              /\ pc \in {"write", "write_peak", "write_offpeak"}
              /\ error = NoError
              /\ validate_excel_structure(excel_df, config) = ""
              /\ ean # <<>>
              /\ HasRecord(ean, ean_mapping)
              /\ value_col >= 0 /\ timestamp_col >= 0 /\ data_start_row >= 0
              /\ Len(timestamps) = Len(values)
              /\ bi_hourly => parts # NoParts]_vars

C26_Witness ==
    /\ pc = "failed"
    /\ bi_hourly
    /\ error = ValueError("unparseable_timestamp")
    /\ timestamps # <<>>
    /\ \A p \in Paths : files[p] = NoFile

\* C27: in a batch, distinct input files are written to distinct output
\* paths: no turn of the loop overwrites a file that an earlier turn of the
\* same batch has written.
C27_DistinctOutputs ==
    [][\A p \in Paths : files[p].exists => files'[p] = files[p]]_vars

\* extract_data_from_excel has returned its two series.
ExtractionReturned == StageOf(pc) \in 6..7 \/ pc = "done"

\* C28: in every successful extraction the data-start row is strictly
\* greater than the header row, and no row at or above the header row is
\* the source of an element of the extracted series.
C28_DataBelowHeader ==
    ExtractionReturned =>
        /\ data_start_row > FirstMarkerRow(excel_df)
        /\ \A i \in 1..Len(timestamps) : timestamps[i].src > FirstMarkerRow(excel_df)
        /\ \A i \in 1..Len(values) : values[i].src > FirstMarkerRow(excel_df)

\* The worksheet under conversion has no header marker in its first 5 rows.
Headerless == pc # "fn" /\ MarkerRows(excel_df) = {}
\* The stages before the column location accept the worksheet.
ReachesLocation ==
    /\ validate_excel_structure(excel_df, config) = ""
    /\ extract_ean_from_excel(excel_df, config).ok
    /\ \/ has_peak_offpeak_variants(extract_ean_from_excel(excel_df, config).ean,
                                    ean_mapping)
       \/ find_ean_mapping(extract_ean_from_excel(excel_df, config).ean, ean_mapping,
                           "None").ok

\* C29: the value column is resolved before the timestamp column, so the
\* timestamp column is resolved only with a located header row; for a grid
\* without header marker in its first 5 rows the conversion always fails
\* with the header-not-found error and never resolves a timestamp column.
C29_HeaderlessFails ==
    /\ pc = "find_timestamp_col" => (value_col >= 0 /\ ~Headerless)
    /\ Headerless =>
          /\ pc # "done"
          /\ timestamp_col = -1
          /\ pc = "failed" => error = ValueError("header_not_found")

\* C29, amended: the value column is resolved before the timestamp column,
\* so the timestamp column is resolved only with a located header row; for
\* a grid without header marker in its first 5 rows the conversion always
\* fails and never resolves a timestamp column, and it fails with the
\* header-not-found error exactly when validation, identifier extraction
\* and the mapping check of the standard branch have accepted the input.
C29_HeaderlessStops ==
    /\ pc = "find_timestamp_col" => (value_col >= 0 /\ ~Headerless)
    /\ Headerless =>
          /\ pc # "done"
          /\ timestamp_col = -1
          /\ StageOf(pc) \in 1..4 \/ pc = "failed"
          /\ pc = "failed" =>
                (error = ValueError("header_not_found") <=> ReachesLocation)

C29_Witness ==
    /\ Headerless
    /\ pc = "failed"
    /\ error = ValueError("header_not_found")
    /\ HeuristicHits(excel_df) # {}
    /\ timestamp_col = -1

\* C30: in every successful extraction the timestamp column differs from
\* the value column.
C30_DistinctColumns ==
    ExtractionReturned => timestamp_col # value_col

====
